---------------------------- MODULE Spec2Model ----------------------------
(***************************************************************************)
(* GidTerm core engine: the DAG scheduler (core/graph.rs,                  *)
(* core/scheduler.rs), the PTY-backed executor with its per-task reader    *)
(* workers (core/executor.rs, core/pty.rs) and the driver loop             *)
(* (app.rs, main.rs).                                                      *)
(*                                                                         *)
(* Rust's Option<T> is written as a set with at most one element:          *)
(* None is {} and Some(x) is {x}.                                          *)
(***************************************************************************)
EXTENDS Integers, Sequences, FiniteSets, TLC

VARIABLES
    graph,      \* Graph.tasks: id -> [command, depends_on]
    status,     \* Task.status of every task of the graph
    running,    \* Scheduler.running
    ready,      \* the list the last schedule_next() returned
    last,       \* the last Scheduler / driver call and whether it returned Ok
    handles,    \* Executor.handles: ids that have an entry in the table
    reader,     \* PTYHandle.reader per id  (TRUE = Some)
    child,      \* PTYHandle.child per id   (TRUE = Some)
    master,     \* PTYHandle.master per id  (TRUE = Some)
    bus,        \* the mpsc channel: events sent and not yet received
    trace,      \* per id, every event ever sent on the channel, in order
    proc,       \* the child process behind each PTY
    lines,      \* number of lines read from the PTYs so far
    killed,     \* ids on whose handle kill() took the child
    rpc,        \* position of each id's reader worker
    pc,         \* position of the driver (run_tui)
    spawnErr,   \* ids for which Executor::start_task returned an error
    faults,     \* number of operating-system errors injected so far
    keys,       \* number of keys the user has pressed so far
    allocations,\* PortRegistry.allocations: project -> PortEntry
    port_map,   \* PortRegistry.port_map: port -> project
    bindable,   \* the ports a TCP bind on 127.0.0.1 succeeds on
    ports_json, \* the allocations written in ~/.gidterm/ports.json, if followed
    project_ports, \* PortManager.project_ports: project -> port
    written,    \* the bytes written to each id's PTY master
    task_metrics,   \* App.task_metrics: id -> the TaskMetrics stored, if any
    metric_history, \* App.metric_history: id -> snapshots of its history
    advisories,     \* App.advisories: id -> the advisories stored, if any
    now,        \* the monotonic clock (Instant::now), in ticks
    handle_table, \* Executor.handles as a map: id -> the PTYHandle it holds
    ptys,       \* every PTYHandle spawned: its fields, process and worker
    owner,      \* who holds each Mutex: the handle table's and each handle's
    call        \* the Executor call the driver is in, and how far it got

vars == <<graph, status, running, ready, last, handles, reader, child,
          master, bus, trace, proc, lines, killed, rpc, pc, spawnErr,
          faults, keys, allocations, port_map, bindable, ports_json,
          project_ports,
          written,
          task_metrics, metric_history, advisories, now,
          handle_table, ptys, owner, call>>

schedVars == <<graph, status, running, ready, last>>
portVars  == <<allocations, port_map, bindable, ports_json, project_ports>>
\* the state outside the scheduler, the executor and the driver
ptyVars   == <<written>>
metricVars == <<task_metrics, metric_history, advisories, now>>
lockVars  == <<handle_table, ptys, owner, call>>
libVars   == <<portVars, ptyVars, metricVars, lockVars>>
execVars  == <<handles, reader, child, master, bus, trace, proc, lines,
               killed, rpc, spawnErr>>

----------------------------------------------------------------------------
(* Bounds and the universe of the model *)

\* ids of the tasks of the graph
TaskIds == {"a", "b", "c"}

\* an id that is not a key of Graph.tasks
UnknownId == "zz"

\* most lines that pass through the PTYs in one run, read from the child
\* processes or written to them
MaxLines == 1

\* number of ports in the range the registry allocates from
MaxPorts == 2

\* ticks of the clock in one second
TicksPerSecond == 2

\* the clock stops at this tick
MaxTime == 3

\* most Output events the driver handles in one run
MaxOutputs == 4

\* most characters of a command template
MaxTemplate == 4

\* the largest number in a [cur/total] step line
MaxStep == 2

\* most lines of the output window given to a parser
MaxWindow == 2

\* most events of the environment in one run: a key ('k' or 'q') the user
\* presses, or an operating-system error (PTY allocation, read, wait, kill,
\* worker join)
MaxEvents == 1

None == {}
Some(x) == {x}

GraphTaskStatus == {"Pending", "InProgress", "Done", "Failed", "Planned"}

----------------------------------------------------------------------------
(* core/graph.rs *)

Task(command, depends_on) == [command |-> command, depends_on |-> depends_on]

\* Graph::can_start that looks at no dependency
can_start_NoDeps(g, st, task_id) == task_id \in DOMAIN g

\* Graph::can_start
can_start(g, st, task_id) ==
    IF task_id \notin DOMAIN g THEN FALSE
    ELSE IF g[task_id].depends_on = None THEN TRUE
    ELSE \A deps \in g[task_id].depends_on :
            \A dep_id \in deps :
                IF dep_id \in DOMAIN g
                THEN st[dep_id] = "Done"
                ELSE FALSE

\* Graph::get_ready_tasks without the test of the task's own status
get_ready_tasks_AnyStatus(g, st) ==
    {id \in DOMAIN g : can_start(g, st, id)}

\* Graph::get_ready_tasks (a Vec in HashMap order: modelled as the set of its ids)
get_ready_tasks(g, st) ==
    {id \in DOMAIN g : can_start(g, st, id) /\ st[id] = "Pending"}

\* Graph::update_task_status: Result<()> and the task table afterwards
update_task_status(st, task_id, new_status) ==
    IF task_id \in DOMAIN st
    THEN [ok |-> TRUE,  status |-> [st EXCEPT ![task_id] = new_status]]
    ELSE [ok |-> FALSE, status |-> st]

----------------------------------------------------------------------------
(* core/scheduler.rs *)

\* Scheduler::schedule_next
schedule_next(g, st, run) ==
    {id \in get_ready_tasks(g, st) : id \notin run}

\* Scheduler::mark_started that inserts the id before it looks at the result
mark_started_InsertFirst(st, run, task_id) ==
    LET r == update_task_status(st, task_id, "InProgress")
    IN  [ok |-> r.ok, status |-> r.status, running |-> run \cup {task_id}]

\* Scheduler::mark_started: `?` returns before the insert when the id is unknown
mark_started(st, run, task_id) ==
    LET r == update_task_status(st, task_id, "InProgress")
    IN  IF r.ok
        THEN [ok |-> TRUE,  status |-> r.status, running |-> run \cup {task_id}]
        ELSE [ok |-> FALSE, status |-> st,       running |-> run]

\* Scheduler::mark_done that forgets to remove the id from running
mark_done_KeepRunning(st, run, task_id) ==
    LET r == update_task_status(st, task_id, "Done")
    IN  IF r.ok
        THEN [ok |-> TRUE,  status |-> r.status, running |-> run]
        ELSE [ok |-> FALSE, status |-> st,       running |-> run]

\* Scheduler::mark_done
mark_done(st, run, task_id) ==
    LET r == update_task_status(st, task_id, "Done")
    IN  IF r.ok
        THEN [ok |-> TRUE,  status |-> r.status, running |-> run \ {task_id}]
        ELSE [ok |-> FALSE, status |-> st,       running |-> run]

\* Scheduler::mark_failed that forgets to remove the id from running
mark_failed_KeepRunning(st, run, task_id) ==
    LET r == update_task_status(st, task_id, "Failed")
    IN  IF r.ok
        THEN [ok |-> TRUE,  status |-> r.status, running |-> run]
        ELSE [ok |-> FALSE, status |-> st,       running |-> run]

\* Scheduler::mark_failed
mark_failed(st, run, task_id) ==
    LET r == update_task_status(st, task_id, "Failed")
    IN  IF r.ok
        THEN [ok |-> TRUE,  status |-> r.status, running |-> run \ {task_id}]
        ELSE [ok |-> FALSE, status |-> st,       running |-> run]

\* Scheduler::all_done that counts only Done
all_done_DoneOnly(st, run) ==
    run = {} /\ \A id \in DOMAIN st : st[id] = "Done"

\* Scheduler::all_done
all_done(st, run) ==
    run = {} /\ \A id \in DOMAIN st : st[id] = "Done" \/ st[id] = "Failed"

Call(op, ok) == [op |-> op, ok |-> ok]

\* a call that returned a value
Returned(op, value) == [op |-> op, ok |-> TRUE, value |-> value]

\* a call of an Executor method on a task id: whether handles.get(task_id)
\* found a handle, and whether the call returned Ok
CallOn(op, task_id, live, ok) ==
    [op |-> op, task_id |-> task_id, live |-> live, ok |-> ok]

----------------------------------------------------------------------------
(* core/pty.rs *)

\* str::trim on a command: whitespace-only text trims to the empty string
Trim(command) == IF command \in {"", " "} THEN "" ELSE command

\* str::trim_end on a line read from the PTY: the terminator and trailing
\* blanks go
TrimEnd(raw) ==
    CASE raw = "x\n" -> "x"
      [] raw = "\n"  -> ""
      [] raw = " \n" -> ""
      [] OTHER       -> raw

\* lines a child may write
RawLines == {"x\n", "\n"}

\* exit status of `sh -c command`
ExitCodeOf(command) == IF command = "false" THEN 1 ELSE 0

\* status.exit_code().try_into().unwrap_or(1): u32 -> i32
ToI32(code) == IF code <= 2147483647 THEN code ELSE 1

\* PTYHandle::spawn: Result<Self>. envFail: openpty, spawn_command or
\* try_clone_reader returned an error
spawn(command, envFail) ==
    IF Trim(command) = "" THEN [ok |-> FALSE, error |-> "Empty command"]
    ELSE IF envFail THEN [ok |-> FALSE, error |-> "pty error"]
    ELSE [ok |-> TRUE, error |-> ""]

\* PTYHandle::try_wait that reports a clean exit once the child was taken
try_wait_TakenIsZero(hasChild, process, command, waitErr) ==
    IF hasChild
    THEN IF waitErr THEN None
         ELSE IF process = "exited" THEN Some(ToI32(ExitCodeOf(command)))
         ELSE None
    ELSE Some(0)

\* PTYHandle::try_wait as Result<Option<ExitResult>>: {} is Ok(None) and
\* Err(_), which the caller treats alike; waitErr: child.try_wait() failed
try_wait(hasChild, process, command, waitErr) ==
    IF hasChild
    THEN IF waitErr THEN None
         ELSE IF process = "exited" THEN Some(ToI32(ExitCodeOf(command)))
         ELSE None
    ELSE Some(-1)

\* PTYHandle::read_line_blocking that keeps the reader at end of file
read_line_blocking_KeepReader(hasReader, outcome, raw) ==
    IF ~hasReader THEN [ok |-> TRUE, line |-> None, reader |-> FALSE]
    ELSE CASE outcome = "eof" -> [ok |-> TRUE, line |-> None, reader |-> TRUE]
           [] outcome = "line" -> [ok |-> TRUE, line |-> Some(TrimEnd(raw)),
                                   reader |-> TRUE]
           [] outcome = "wouldblock" -> [ok |-> TRUE, line |-> Some(""),
                                         reader |-> TRUE]
           [] OTHER -> [ok |-> FALSE, line |-> None, reader |-> TRUE]

\* PTYHandle::read_line_blocking: Result<Option<String>> and the reader
\* field afterwards. outcome: what read_line gives when the reader is there
read_line_blocking(hasReader, outcome, raw) ==
    IF ~hasReader THEN [ok |-> TRUE, line |-> None, reader |-> FALSE]
    ELSE CASE outcome = "eof" -> [ok |-> TRUE, line |-> None, reader |-> FALSE]
           [] outcome = "line" -> [ok |-> TRUE, line |-> Some(TrimEnd(raw)),
                                   reader |-> TRUE]
           [] outcome = "wouldblock" -> [ok |-> TRUE, line |-> Some(""),
                                         reader |-> TRUE]
           [] OTHER -> [ok |-> FALSE, line |-> None, reader |-> TRUE]

\* the failures of a write to the master: none, take_writer, or the write
\* of the newline after the input went out
WriteErrs == {"none", "writer", "newline"}

\* PTYHandle::send_input: Result<()> and the bytes the PTY has received
send_input(hasMaster, out, input, writeErr) ==
    IF hasMaster
    THEN CASE writeErr = "none" -> [ok |-> TRUE, written |-> out \o input \o "\n"]
           [] writeErr = "newline" -> [ok |-> FALSE, written |-> out \o input]
           [] OTHER -> [ok |-> FALSE, written |-> out]
    ELSE [ok |-> FALSE, written |-> out]

----------------------------------------------------------------------------
(* core/executor.rs *)

Started(id)            == [kind |-> "Started", task_id |-> id]
Output(id, line)       == [kind |-> "Output", task_id |-> id, line |-> line]
Completed(id, code)    == [kind |-> "Completed", task_id |-> id, exit_code |-> code]
Failed(id, msg, code)  == [kind |-> "Failed", task_id |-> id,
                           error |-> [msg |-> msg, code |-> code]]

IsTerminal(e) == e.kind \in {"Completed", "Failed"}

\* the EOF branch of the reader worker:
\* try_wait().ok().flatten().map(|r| r.code).unwrap_or(0), then the event
eof_event(id, waited) ==
    LET exit_code == IF waited = None THEN 0 ELSE CHOOSE c \in waited : TRUE
    IN  IF exit_code = 0
        THEN Completed(id, exit_code)
        ELSE Failed(id, "Process exited with code", exit_code)

\* the reader worker after a terminal event, with the `break` forgotten
after_terminal_NoBreak == "read"

\* the reader worker after a terminal event: `break`, then the cleanup
after_terminal == "cleanup"

\* event_tx.send(event)
send(w, e) ==
    [w EXCEPT !.bus = Append(@, e),
              !.trace[e.task_id] = Append(@, e)]

\* the worker's Ok(Ok(Some(line))) arm with the test for the empty line
\* left out
on_line_Unfiltered(w, id, line) == send(w, Output(id, line))

\* the worker's Ok(Ok(Some(line))) arm: Output is sent for a line that is
\* not empty, and nothing otherwise
on_line(w, id, line) ==
    IF line # "" THEN send(w, Output(id, line)) ELSE w

\* Executor::start_task that launches the worker and never sends Started
start_task_NoStarted(w, task_id, command, envFail) ==
    LET h == spawn(command, envFail)
    IN  IF ~h.ok
        THEN [w EXCEPT !.ok = FALSE, !.spawnErr = @ \cup {task_id}]
        ELSE [w EXCEPT !.handles = @ \cup {task_id},
                       !.reader[task_id] = TRUE,
                       !.child[task_id] = TRUE,
                       !.master[task_id] = TRUE,
                       !.proc[task_id] = "running",
                       !.rpc[task_id] = "read"]

\* Executor::start_task: spawn, insert the handle, send Started, launch the
\* reader worker. w is the state of the scheduler and the executor.
start_task(w, task_id, command, envFail) ==
    LET h == spawn(command, envFail)
    IN  IF ~h.ok
        THEN [w EXCEPT !.ok = FALSE, !.spawnErr = @ \cup {task_id}]
        ELSE send([w EXCEPT !.handles = @ \cup {task_id},
                            !.reader[task_id] = TRUE,
                            !.child[task_id] = TRUE,
                            !.master[task_id] = TRUE,
                            !.proc[task_id] = "running",
                            !.rpc[task_id] = "read"],
                  Started(task_id))

\* PTYHandle::kill that takes the child and neither signals it nor closes
\* the reader and the master
kill_KeepOpen(w, id, killErr) ==
    IF w.child[id]
    THEN [w EXCEPT !.child[id] = FALSE, !.killed = @ \cup {id}]
    ELSE w

\* PTYHandle::kill. killErr: child.kill() returned an error, and `?` leaves
\* before the reader and the master are closed.
kill(w, id, killErr) ==
    IF w.child[id]
    THEN IF killErr
         THEN [w EXCEPT !.child[id] = FALSE, !.killed = @ \cup {id}, !.ok = FALSE]
         ELSE [w EXCEPT !.child[id] = FALSE, !.killed = @ \cup {id},
                        !.proc[id] = "exited",
                        !.reader[id] = FALSE, !.master[id] = FALSE]
    ELSE [w EXCEPT !.reader[id] = FALSE, !.master[id] = FALSE]

\* Executor::stop_task
stop_task(w, task_id, killErr) ==
    IF task_id \in w.handles THEN kill(w, task_id, killErr) ELSE w

\* Executor::stop_all: every handle of the table is killed, errors are logged
RECURSIVE stop_all(_, _, _)
stop_all(w, ids, killErrs) ==
    IF ids = {} THEN [w EXCEPT !.ok = TRUE]
    ELSE LET id == CHOOSE i \in ids : TRUE
         IN  stop_all(kill(w, id, id \in killErrs), ids \ {id}, killErrs)

----------------------------------------------------------------------------
(* app.rs *)

\* App::start_ready_tasks, the loop over the ready list in the order given;
\* `?` leaves at the first error
RECURSIVE start_loop(_, _, _, _)
start_loop(g, w, order, envFails) ==
    IF order = <<>> THEN w
    ELSE LET task_id == Head(order)
             command == g[task_id].command
         IN  IF command # None
             THEN LET w1 == start_task(w, task_id, CHOOSE c \in command : TRUE,
                                       task_id \in envFails)
                      m  == mark_started(w1.status, w1.running, task_id)
                  IN  IF ~w1.ok THEN w1
                      ELSE IF ~m.ok THEN [w1 EXCEPT !.ok = FALSE]
                      ELSE start_loop(g, [w1 EXCEPT !.status = m.status,
                                                    !.running = m.running],
                                      Tail(order), envFails)
             ELSE LET m == mark_done(w.status, w.running, task_id)
                  IN  IF ~m.ok THEN [w EXCEPT !.ok = FALSE]
                      ELSE start_loop(g, [w EXCEPT !.status = m.status,
                                                   !.running = m.running],
                                      Tail(order), envFails)

\* App::process_events, one event: what it does to the scheduler
process_event(sched, event) ==
    CASE event.kind = "Completed" ->
            LET m == mark_done(sched.status, sched.running, event.task_id)
            IN  [status |-> m.status, running |-> m.running]
      [] event.kind = "Failed" ->
            LET m == mark_failed(sched.status, sched.running, event.task_id)
            IN  [status |-> m.status, running |-> m.running]
      [] OTHER -> sched

\* App::process_events: while let Ok(event) = event_rx.try_recv()
RECURSIVE process_events(_, _)
process_events(sched, events) ==
    IF events = <<>> THEN sched
    ELSE process_events(process_event(sched, Head(events)), Tail(events))

----------------------------------------------------------------------------
(* ports.rs. A registry is [allocations, port_map]; an entry keeps the     *)
(* port, the pid, the active flag and last_active (allocated_at and the    *)
(* description decide nothing). Every method returns [ok, reg, saved]:     *)
(* whether it returned Ok, the registry it leaves, and whether its save()  *)
(* wrote the ports file. bnd is the set of ports a bind succeeds on at the *)
(* time of the call; saveErr: writing ports.json failed.                   *)

PORT_RANGE_START == 3000
PORT_RANGE_END == PORT_RANGE_START + MaxPorts - 1

\* the ports a caller may name: the range and one port below it
Ports == (PORT_RANGE_START - 1)..PORT_RANGE_END

Projects == {"projA", "projB"}

\* process ids given to mark_active
Pids == {"pid1"}

PortStatus == {"Available", "Reserved", "Active", "ExternallyUsed"}

\* PortEntry without allocated_at and description, which nothing reads
PortEntry(port, pid, active, last_active) ==
    [port |-> port, pid |-> pid, active |-> active, last_active |-> last_active]

\* f without the key k
Without(f, k) == [x \in DOMAIN f \ {k} |-> f[x]]

\* f with the key k set to v
With(f, k, v) == [x \in DOMAIN f \cup {k} |-> IF x = k THEN v ELSE f[x]]

is_port_available(bnd, port) == port \in bnd

\* PortRegistry::save_to: the allocations replace the content of the file
\* (port_map is #[serde(skip)]). The file is None in the runs that leave
\* its content out.
save_to(file, reg) == IF file = None THEN None ELSE Some(reg.allocations)

\* PortRegistry::rebuild_port_map
rebuild_port_map(allocs) ==
    [port \in {allocs[p].port : p \in DOMAIN allocs} |->
        CHOOSE p \in DOMAIN allocs : allocs[p].port = port]

\* PortRegistry::allocate: both maps are changed before save()
allocate(reg, project, port, saveErr) ==
    LET freed == IF project \in DOMAIN reg.allocations
                 THEN Without(reg.port_map, reg.allocations[project].port)
                 ELSE reg.port_map
    IN  [ok |-> ~saveErr, saved |-> ~saveErr,
         reg |-> [allocations |-> With(reg.allocations, project,
                                       PortEntry(port, None, FALSE, None)),
                  port_map |-> With(freed, port, project)]]

\* PortRegistry::find_available_port that does not look into the index
find_available_port_IgnoreIndex(reg, bnd) ==
    LET free == {port \in PORT_RANGE_START..PORT_RANGE_END :
                    is_port_available(bnd, port)}
    IN  IF free = {} THEN None
        ELSE Some(CHOOSE port \in free : \A other \in free : port <= other)

\* PortRegistry::find_available_port: the first port of the range that is
\* not in the index and is bindable
find_available_port(reg, bnd) ==
    LET free == {port \in PORT_RANGE_START..PORT_RANGE_END :
                    port \notin DOMAIN reg.port_map /\ is_port_available(bnd, port)}
    IN  IF free = {} THEN None
        ELSE Some(CHOOSE port \in free : \A other \in free : port <= other)

\* PortRegistry::get_or_allocate that keeps an entry only while its port is
\* bindable
get_or_allocate_BindableOnly(reg, bnd, project, preferred, saveErr) ==
    LET found == find_available_port(reg, bnd)
        pick == CHOOSE port \in found : TRUE
        pref == CHOOSE port \in preferred : TRUE
    IN  IF /\ project \in DOMAIN reg.allocations
           /\ is_port_available(bnd, reg.allocations[project].port)
        THEN [ok |-> TRUE, saved |-> FALSE,
              port |-> Some(reg.allocations[project].port), reg |-> reg]
        ELSE IF /\ preferred # None
                /\ is_port_available(bnd, pref)
                /\ pref \notin DOMAIN reg.port_map
        THEN LET r == allocate(reg, project, pref, saveErr)
             IN  [ok |-> r.ok, saved |-> r.saved,
                  port |-> IF r.ok THEN Some(pref) ELSE None, reg |-> r.reg]
        ELSE IF found = None
        THEN [ok |-> FALSE, saved |-> FALSE, port |-> None, reg |-> reg]
        ELSE LET r == allocate(reg, project, pick, saveErr)
             IN  [ok |-> r.ok, saved |-> r.saved,
                  port |-> IF r.ok THEN Some(pick) ELSE None, reg |-> r.reg]

\* PortRegistry::get_or_allocate: Result<u16> and the registry afterwards
get_or_allocate(reg, bnd, project, preferred, saveErr) ==
    LET found == find_available_port(reg, bnd)
        pick == CHOOSE port \in found : TRUE
        pref == CHOOSE port \in preferred : TRUE
    IN  IF /\ project \in DOMAIN reg.allocations
           /\ \/ is_port_available(bnd, reg.allocations[project].port)
              \/ reg.allocations[project].active
        THEN [ok |-> TRUE, saved |-> FALSE,
              port |-> Some(reg.allocations[project].port), reg |-> reg]
        ELSE IF /\ preferred # None
                /\ is_port_available(bnd, pref)
                /\ pref \notin DOMAIN reg.port_map
        THEN LET r == allocate(reg, project, pref, saveErr)
             IN  [ok |-> r.ok, saved |-> r.saved,
                  port |-> IF r.ok THEN Some(pref) ELSE None, reg |-> r.reg]
        ELSE IF found = None
        THEN [ok |-> FALSE, saved |-> FALSE, port |-> None, reg |-> reg]
        ELSE LET r == allocate(reg, project, pick, saveErr)
             IN  [ok |-> r.ok, saved |-> r.saved,
                  port |-> IF r.ok THEN Some(pick) ELSE None, reg |-> r.reg]

\* The port step of App::new: PortManager::allocate(project, None) on the
\* manager's registry; an Err is logged and the App is built without a port
\* (port: what the manager's project_ports then holds for the project)
App_new(reg, bnd, project, saveErr) ==
    LET r == get_or_allocate(reg, bnd, project, None, saveErr)
    IN  [ok |-> TRUE, saved |-> r.saved,
         port |-> IF r.ok THEN r.port ELSE None, reg |-> r.reg]

\* PortManager::allocate: Result<u16>; the cache is written only after
\* get_or_allocate returned Ok
PortManager_allocate(reg, cache, bnd, project, preferred, saveErr) ==
    LET r == get_or_allocate(reg, bnd, project, preferred, saveErr)
    IN  [ok |-> r.ok, saved |-> r.saved, port |-> r.port, reg |-> r.reg,
         project_ports |->
            IF r.ok
            THEN [p \in DOMAIN cache \cup {project} |->
                     IF p = project THEN CHOOSE port \in r.port : TRUE
                     ELSE cache[p]]
            ELSE cache]

\* PortManager::get_port: Option<u16>
PortManager_get_port(cache, project) ==
    IF project \in DOMAIN cache THEN Some(cache[project]) ELSE None

\* PortRegistry::mark_active that records the pid and leaves the flag
mark_active_PidOnly(reg, project, pid, t, saveErr) ==
    IF project \in DOMAIN reg.allocations
    THEN [ok |-> ~saveErr, saved |-> ~saveErr,
          reg |-> [reg EXCEPT !.allocations[project].pid = pid]]
    ELSE [ok |-> TRUE, saved |-> FALSE, reg |-> reg]

\* PortRegistry::mark_active. t: SystemTime::now()
mark_active(reg, project, pid, t, saveErr) ==
    IF project \in DOMAIN reg.allocations
    THEN [ok |-> ~saveErr, saved |-> ~saveErr,
          reg |-> [reg EXCEPT !.allocations[project].active = TRUE,
                              !.allocations[project].pid = pid,
                              !.allocations[project].last_active = Some(t)]]
    ELSE [ok |-> TRUE, saved |-> FALSE, reg |-> reg]

\* PortRegistry::mark_inactive that also forgets when the entry was active
mark_inactive_ClearStamp(reg, project, saveErr) ==
    IF project \in DOMAIN reg.allocations
    THEN [ok |-> ~saveErr, saved |-> ~saveErr,
          reg |-> [reg EXCEPT !.allocations[project].active = FALSE,
                              !.allocations[project].pid = None,
                              !.allocations[project].last_active = None]]
    ELSE [ok |-> TRUE, saved |-> FALSE, reg |-> reg]

\* PortRegistry::mark_inactive: last_active stays
mark_inactive(reg, project, saveErr) ==
    IF project \in DOMAIN reg.allocations
    THEN [ok |-> ~saveErr, saved |-> ~saveErr,
          reg |-> [reg EXCEPT !.allocations[project].active = FALSE,
                              !.allocations[project].pid = None]]
    ELSE [ok |-> TRUE, saved |-> FALSE, reg |-> reg]

\* PortRegistry::release that leaves the port in the index
release_KeepIndex(reg, project, saveErr) ==
    IF project \in DOMAIN reg.allocations
    THEN [ok |-> ~saveErr, saved |-> ~saveErr,
          reg |-> [allocations |-> Without(reg.allocations, project),
                   port_map |-> reg.port_map]]
    ELSE [ok |-> TRUE, saved |-> FALSE, reg |-> reg]

\* PortRegistry::release
release(reg, project, saveErr) ==
    IF project \in DOMAIN reg.allocations
    THEN [ok |-> ~saveErr, saved |-> ~saveErr,
          reg |-> [allocations |-> Without(reg.allocations, project),
                   port_map |-> Without(reg.port_map,
                                        reg.allocations[project].port)]]
    ELSE [ok |-> TRUE, saved |-> FALSE, reg |-> reg]

\* PortRegistry::get_status
get_status(reg, bnd, project) ==
    IF project \in DOMAIN reg.allocations
    THEN IF reg.allocations[project].active THEN "Active"
         ELSE IF is_port_available(bnd, reg.allocations[project].port) THEN "Reserved"
         ELSE "ExternallyUsed"
    ELSE "Available"

\* PortRegistry::cleanup_stale that also drops the active entries whose port
\* is not bindable
cleanup_stale_ActiveToo(reg, bnd, saveErr) ==
    LET stale == {p \in DOMAIN reg.allocations :
                     ~is_port_available(bnd, reg.allocations[p].port)}
        kept == [p \in DOMAIN reg.allocations \ stale |-> reg.allocations[p]]
    IN  [ok |-> ~(saveErr /\ stale # {}),
         saved |-> stale # {} /\ ~saveErr,
         count |-> Cardinality(stale),
         reg |-> [allocations |-> kept, port_map |-> rebuild_port_map(kept)]]

\* PortRegistry::cleanup_stale: Result<usize>; save() only when an entry went
cleanup_stale(reg, bnd, saveErr) ==
    LET stale == {p \in DOMAIN reg.allocations :
                     /\ ~reg.allocations[p].active
                     /\ ~is_port_available(bnd, reg.allocations[p].port)}
        kept == [p \in DOMAIN reg.allocations \ stale |-> reg.allocations[p]]
    IN  [ok |-> ~(saveErr /\ stale # {}),
         saved |-> stale # {} /\ ~saveErr,
         count |-> Cardinality(stale),
         reg |-> [allocations |-> kept, port_map |-> rebuild_port_map(kept)]]

\* PortRegistry::refresh_status. alive: the pids is_process_running finds
refresh_status(reg, alive, saveErr) ==
    [ok |-> ~saveErr, saved |-> ~saveErr,
     reg |-> [reg EXCEPT !.allocations =
                 [p \in DOMAIN reg.allocations |->
                     IF reg.allocations[p].pid # None
                        /\ reg.allocations[p].pid \cap alive = {}
                     THEN [reg.allocations[p] EXCEPT !.active = FALSE, !.pid = None]
                     ELSE reg.allocations[p]]]]

----------------------------------------------------------------------------
(* semantic/history.rs and App::update_task_metrics. Progress is counted   *)
(* in thousandths, time in ticks.                                          *)

max_snapshots == 500

Abs(x) == IF x < 0 THEN 0 - x ELSE x

MetricSnapshot(timestamp, progress, metrics) ==
    [timestamp |-> timestamp, progress |-> progress, metrics |-> metrics]

\* TaskMetricHistory::record that never drains
record_NoCap(snapshots, progress, metrics, t) ==
    IF /\ snapshots # <<>>
       /\ Abs(snapshots[Len(snapshots)].progress - progress) < 1
       /\ t - snapshots[Len(snapshots)].timestamp < TicksPerSecond
    THEN snapshots
    ELSE Append(snapshots, MetricSnapshot(t, progress, metrics))

\* TaskMetricHistory::record without the deduplication
record_NoDedup(snapshots, progress, metrics, t) ==
    LET pushed == Append(snapshots, MetricSnapshot(t, progress, metrics))
    IN  IF Len(pushed) > max_snapshots
        THEN SubSeq(pushed, Len(pushed) - max_snapshots + 1, Len(pushed))
        ELSE pushed

\* TaskMetricHistory::record at time t: the snapshots afterwards
record(snapshots, progress, metrics, t) ==
    IF /\ snapshots # <<>>
       /\ Abs(snapshots[Len(snapshots)].progress - progress) < 1
       /\ t - snapshots[Len(snapshots)].timestamp < TicksPerSecond
    THEN snapshots
    ELSE LET pushed == Append(snapshots, MetricSnapshot(t, progress, metrics))
         IN  IF Len(pushed) > max_snapshots
             THEN SubSeq(pushed, Len(pushed) - max_snapshots + 1, Len(pushed))
             ELSE pushed

\* the snapshots estimate_remaining and progress_rate look back over
rate_window == 10

seconds_per_day == 86400

\* the longest estimate that is given, in ticks
EtaCap == 7 * seconds_per_day * TicksPerSecond

\* TaskMetricHistory::estimate_remaining that takes the rate over the whole
\* history
estimate_remaining_WholeHistory(snapshots) ==
    IF Len(snapshots) < 2 THEN None
    ELSE LET latest == snapshots[Len(snapshots)]
             start == snapshots[1]
             progress_delta == latest.progress - start.progress
             time_delta == latest.timestamp - start.timestamp
             remaining == (1000 - latest.progress) * time_delta
         IN  IF latest.progress <= 0 \/ latest.progress >= 1000 THEN None
             ELSE IF progress_delta <= 0 \/ time_delta <= 0 THEN None
             ELSE IF remaining > 0 /\ remaining < EtaCap * progress_delta
             THEN Some(remaining \div progress_delta)
             ELSE None

\* TaskMetricHistory::estimate_remaining: Some(ticks that remain, rounded
\* down) or None. remaining_secs is remaining / (progress_delta * TicksPerSecond)
estimate_remaining(snapshots) ==
    IF Len(snapshots) < 2 THEN None
    ELSE LET latest == snapshots[Len(snapshots)]
             window == IF Len(snapshots) < rate_window THEN Len(snapshots)
                       ELSE rate_window
             start == snapshots[Len(snapshots) - window + 1]
             progress_delta == latest.progress - start.progress
             time_delta == latest.timestamp - start.timestamp
             remaining == (1000 - latest.progress) * time_delta
         IN  IF latest.progress <= 0 \/ latest.progress >= 1000 THEN None
             ELSE IF progress_delta <= 0 \/ time_delta <= 0 THEN None
             ELSE IF remaining > 0 /\ remaining < EtaCap * progress_delta
             THEN Some(remaining \div progress_delta)
             ELSE None

MetricValue(kind, v) == [kind |-> kind, v |-> v]

\* the filter_map of update_task_metrics: Float and Int metrics as f64
float_metrics(metrics) ==
    [k \in {x \in DOMAIN metrics : metrics[x].kind \in {"Float", "Int"}} |->
        metrics[k].v]

TaskMetrics(progress, metrics, phase, errors) ==
    [progress |-> progress, metrics |-> metrics, phase |-> phase,
     errors |-> errors]

\* what ParserRegistry::parse may give: Some(TaskMetrics), or {} for Err
ParseResults ==
    {None,
     Some(TaskMetrics(0, << >>, None, <<>>)),
     Some(TaskMetrics(0, << >>, Some("train"), <<>>)),
     Some(TaskMetrics(500, << >>, None, <<>>)),
     Some(TaskMetrics(0, [loss |-> MetricValue("Float", 1),
                          stage |-> MetricValue("String", 0)], None, <<>>)),
     Some(TaskMetrics(0, << >>, None, <<"NaN">>))}

\* what SmartAdvisor::evaluate may give
Advice == {<<>>, <<"advisory">>}

\* the test of update_task_metrics: the parse gave meaningful data
meaningful(m) == m.progress > 0 \/ m.metrics # << >> \/ m.errors # <<>>

\* update_task_metrics that stores whatever the parse gave
update_task_metrics_Always(app, task_id, output, parsed, advice, t) ==
    IF output = "" \/ parsed = None THEN app
    ELSE LET m == CHOOSE x \in parsed : TRUE
         IN  [task_metrics |-> [app.task_metrics EXCEPT ![task_id] = Some(m)],
              metric_history |->
                  [app.metric_history EXCEPT
                      ![task_id] = record(@, m.progress, float_metrics(m.metrics), t)],
              advisories |-> IF advice # <<>>
                             THEN [app.advisories EXCEPT ![task_id] = Some(advice)]
                             ELSE app.advisories]

\* App::update_task_metrics at time t. output: the last lines of the task;
\* parsed: the result of the parse; advice: the result of the advisor
update_task_metrics(app, task_id, output, parsed, advice, t) ==
    IF output = "" \/ parsed = None THEN app
    ELSE LET m == CHOOSE x \in parsed : TRUE
         IN  IF meaningful(m)
             THEN [task_metrics |-> [app.task_metrics EXCEPT ![task_id] = Some(m)],
                   metric_history |->
                       [app.metric_history EXCEPT
                           ![task_id] = record(@, m.progress,
                                               float_metrics(m.metrics), t)],
                   advisories |-> IF advice # <<>>
                                  THEN [app.advisories EXCEPT ![task_id] = Some(advice)]
                                  ELSE app.advisories]
             ELSE app

----------------------------------------------------------------------------
(* semantic/commands.rs. A string is the sequence of its characters.       *)

\* the characters of templates, keys and values
Chars == {"{", "}", "a", "b", "x"}

\* the names of parameters
Keys == {"a", "b"}

StartsWith(s, pat) ==
    Len(pat) <= Len(s) /\ SubSeq(s, 1, Len(pat)) = pat

\* str::replace: every match of pat, found from left to right without
\* overlap, becomes val
RECURSIVE Replace(_, _, _)
Replace(s, pat, val) ==
    IF s = <<>> THEN <<>>
    ELSE IF StartsWith(s, pat)
    THEN val \o Replace(SubSeq(s, Len(pat) + 1, Len(s)), pat, val)
    ELSE <<Head(s)>> \o Replace(Tail(s), pat, val)

\* format!("{{{}}}", key)
Placeholder(key) == <<"{", key, "}">>

\* SemanticCommand::render. order: the order in which the HashMap gives its
\* keys
RECURSIVE render(_, _, _)
render(template, params, order) ==
    IF order = <<>> THEN template
    ELSE render(Replace(template, Placeholder(Head(order)), params[Head(order)]),
                params, Tail(order))

\* the bytes of a string, as the PTY receives them
RECURSIVE Str(_)
Str(s) == IF s = <<>> THEN "" ELSE Head(s) \o Str(Tail(s))

\* Task.semantic_commands of the graph file: label -> template, if given
SemanticCommands ==
    [a |-> Some([lr |-> <<"{", "a", "}">>]),
     b |-> Some(<< >>),
     c |-> None]

\* App::get_semantic_commands
get_semantic_commands(task_id) ==
    IF task_id \notin TaskIds THEN None
    ELSE IF SemanticCommands[task_id] = None THEN None
    ELSE IF (CHOOSE m \in SemanticCommands[task_id] : TRUE) = << >> THEN None
    ELSE SemanticCommands[task_id]

\* Executor::send_input that writes to every PTY of the table
executor_send_input_All(table, masters, out, task_id, input, writeErr) ==
    IF task_id \in table
    THEN [ok |-> send_input(masters[task_id], out[task_id], input, writeErr).ok,
          written |-> [id \in DOMAIN out |->
                          IF id \in table
                          THEN send_input(masters[id], out[id], input, writeErr).written
                          ELSE out[id]]]
    ELSE [ok |-> FALSE, written |-> out]

\* Executor::send_input: Result<()> and what every PTY has received
executor_send_input(table, masters, out, task_id, input, writeErr) ==
    IF task_id \in table
    THEN LET r == send_input(masters[task_id], out[task_id], input, writeErr)
         IN  [ok |-> r.ok, written |-> [out EXCEPT ![task_id] = r.written]]
    ELSE [ok |-> FALSE, written |-> out]

\* App::execute_semantic_command
execute_semantic_command(table, masters, out, task_id, label, params, order, writeErr) ==
    LET cmds == get_semantic_commands(task_id)
        map == CHOOSE m \in cmds : TRUE
    IN  IF cmds = None THEN [ok |-> FALSE, written |-> out]
        ELSE IF label \notin DOMAIN map THEN [ok |-> FALSE, written |-> out]
        ELSE executor_send_input(table, masters, out, task_id,
                                 Str(render(map[label], params, order)), writeErr)

----------------------------------------------------------------------------
(* Graphs *)

\* the commands of the tasks: " " is rejected by PTYHandle::spawn, "true"
\* exits with 0, "false" exits with 1

\* S1/S3: a <- b <- c
ChainDeps  == [a |-> None, b |-> Some({"a"}), c |-> Some({"b"})]
\* fan-in: c waits for the siblings a and b
FanInDeps  == [a |-> None, b |-> Some({}), c |-> Some({"a", "b"})]
\* fan-out: b and c wait for a
FanOutDeps == [a |-> None, b |-> Some({"a"}), c |-> Some({"a"})]
\* a dependency that names no task of the graph
DanglingDeps == [a |-> None, b |-> Some({"a", UnknownId}), c |-> Some({"b"})]
\* a dependency cycle b <-> c
CyclicDeps == [a |-> None, b |-> Some({"c"}), c |-> Some({"b"})]

ValidDeps == {ChainDeps, FanInDeps, FanOutDeps}
AllDeps   == ValidDeps \cup {DanglingDeps, CyclicDeps}

MkGraph(deps, cmds) == [id \in TaskIds |-> Task(cmds[id], deps[id])]

\* depends_on of a task as a plain set of ids
DepsOf(g, id) == UNION g[id].depends_on

----------------------------------------------------------------------------
(* The Scheduler driven through its public methods alone *)

\* PortRegistry::default()
IdlePorts ==
    /\ allocations = << >>
    /\ port_map = << >>
    /\ bindable = {}
    /\ ports_json = None
    /\ project_ports = << >>

\* nothing was written to any PTY
IdlePty == written = [id \in TaskIds |-> ""]

\* App::new: no metrics, no history, no advisories
IdleMetrics ==
    /\ task_metrics = [id \in TaskIds |-> None]
    /\ metric_history = [id \in TaskIds |-> <<>>]
    /\ advisories = [id \in TaskIds |-> None]
    /\ now = 0

\* an Executor with no handle and no call under way
IdleLocks ==
    /\ handle_table = << >>
    /\ ptys = << >>
    /\ owner = << >>
    /\ call = [op |-> "idle"]

IdleLib == IdlePorts /\ IdlePty /\ IdleMetrics /\ IdleLocks

IdleExec ==
    /\ handles = {}
    /\ reader = [id \in TaskIds |-> FALSE]
    /\ child = [id \in TaskIds |-> FALSE]
    /\ master = [id \in TaskIds |-> FALSE]
    /\ bus = <<>>
    /\ trace = [id \in TaskIds |-> <<>>]
    /\ proc = [id \in TaskIds |-> "none"]
    /\ lines = 0
    /\ killed = {}
    /\ rpc = [id \in TaskIds |-> "none"]
    /\ spawnErr = {}

\* Scheduler::new on a graph loaded from a file: the file gives every status
SchedInit ==
    /\ \E deps \in AllDeps :
          graph = MkGraph(deps, [id \in TaskIds |-> Some("true")])
    /\ status \in [TaskIds -> GraphTaskStatus]
    /\ running = {}
    /\ ready = {}
    /\ last = Call("new", TRUE)
    /\ pc = "api"
    /\ faults = 0
    /\ keys = 0
    /\ IdleExec
    /\ IdleLib

SchedScheduleNext ==
    /\ ready' = schedule_next(graph, status, running)
    /\ last' = Call("schedule_next", TRUE)
    /\ UNCHANGED <<graph, status, running, pc, faults, keys>>
    /\ UNCHANGED execVars
    /\ UNCHANGED libVars

SchedApply(op, r) ==
    /\ status' = r.status
    /\ running' = r.running
    /\ last' = Call(op, r.ok)
    /\ UNCHANGED <<graph, ready, pc, faults, keys>>
    /\ UNCHANGED execVars
    /\ UNCHANGED libVars

SchedMarkStarted(id) == SchedApply("mark_started", mark_started(status, running, id))
SchedMarkDone(id)    == SchedApply("mark_done", mark_done(status, running, id))
SchedMarkFailed(id)  == SchedApply("mark_failed", mark_failed(status, running, id))

SchedAllDone ==
    /\ last' = Returned("all_done", all_done(status, running))
    /\ UNCHANGED <<graph, status, running, ready, pc, faults, keys>>
    /\ UNCHANGED execVars
    /\ UNCHANGED libVars

SchedNext ==
    \/ SchedScheduleNext
    \/ SchedAllDone
    \/ \E id \in TaskIds \cup {UnknownId} : SchedMarkStarted(id)
    \/ \E id \in TaskIds \cup {UnknownId} : SchedMarkDone(id)
    \/ \E id \in TaskIds \cup {UnknownId} : SchedMarkFailed(id)

SchedSpec == SchedInit /\ [][SchedNext]_vars


----------------------------------------------------------------------------
(* The program: run_tui of main.rs drives App; reader workers and child    *)
(* processes run beside it                                                 *)

\* the state the scheduler and the executor operators work on
World ==
    [status |-> status, running |-> running, handles |-> handles,
     reader |-> reader, child |-> child, master |-> master, bus |-> bus,
     trace |-> trace, proc |-> proc, lines |-> lines,
     killed |-> killed, rpc |-> rpc, spawnErr |-> spawnErr, ok |-> TRUE]

Install(w) ==
    /\ status' = w.status     /\ running' = w.running
    /\ handles' = w.handles   /\ reader' = w.reader
    /\ child' = w.child       /\ master' = w.master
    /\ bus' = w.bus           /\ trace' = w.trace
    /\ proc' = w.proc         /\ lines' = w.lines
    /\ killed' = w.killed     /\ rpc' = w.rpc
    /\ spawnErr' = w.spawnErr

\* the orders in which a HashMap may yield the ids of S
Orders(S) ==
    {o \in [1..Cardinality(S) -> S] : \A i, j \in 1..Cardinality(S) :
                                          i # j => o[i] # o[j]}

\* the graphs the program is run on: S3's chain with a failing middle task
\* and a marker task at its end; a rejected command beside a sibling; a
\* marker task above two siblings of which one fails
Graphs ==
    { MkGraph(ChainDeps,  [a |-> Some("true"), b |-> Some("false"), c |-> None]),
      MkGraph(FanInDeps,  [a |-> Some(" "),    b |-> Some("true"),  c |-> Some("true")]),
      MkGraph(FanOutDeps, [a |-> None,         b |-> Some("true"),  c |-> Some("false")]) }

\* App::new on a graph whose tasks are all Pending
Init ==
    /\ graph \in Graphs
    /\ status = [id \in TaskIds |-> "Pending"]
    /\ running = {}
    /\ ready = {}
    /\ last = Call("new", TRUE)
    /\ pc = "start0"
    /\ faults = 0
    /\ keys = 0
    /\ IdleExec
    /\ IdleLib

\* a key is pressed, or an operating-system error injected, only while the
\* budget of events lasts
Event(key, injected) ==
    /\ (key \/ injected) => keys + faults < MaxEvents
    /\ keys' = IF key THEN keys + 1 ELSE keys
    /\ faults' = IF injected THEN faults + 1 ELSE faults

\* App::start_ready_tasks, called once before the loop of run_tui and once
\* in every round of it; an error ends run_tui. envFails: the task whose PTY
\* the operating system fails to set up (the first failure ends the call)
StartReadyTasks(envFails) ==
    /\ pc \in {"start0", "start"}
    /\ LET rdy == schedule_next(graph, status, running)
       IN  /\ ready' = rdy
           /\ envFails \subseteq {id \in rdy : graph[id].command # None}
           /\ Cardinality(envFails) <= 1
           /\ \E order \in Orders(rdy) :
                 LET w == start_loop(graph, World, order, envFails)
                 IN  /\ Install(w)
                     /\ pc' = IF ~w.ok THEN "crashed"
                              ELSE IF pc = "start0" THEN "process" ELSE "input"
    /\ Event(FALSE, envFails # {})
    /\ UNCHANGED <<graph, last>>
    /\ UNCHANGED libVars

\* App::process_events
ProcessEvents ==
    /\ pc = "process"
    /\ LET sched == process_events([status |-> status, running |-> running], bus)
       IN  /\ status' = sched.status
           /\ running' = sched.running
    /\ bus' = <<>>
    /\ pc' = "start"
    /\ UNCHANGED <<graph, ready, last, handles, reader, child, master, trace,
                   proc, lines, killed, rpc, spawnErr, faults, keys>>
    /\ UNCHANGED libVars

\* a round of run_tui in which no key is read
Tick ==
    /\ pc = "input"
    /\ pc' = "process"
    /\ UNCHANGED <<graph, status, running, ready, last, faults, keys>>
    /\ UNCHANGED execVars
    /\ UNCHANGED libVars

\* App::handle_key, 'k' on the selected task: Executor::stop_task
KeyKill(task_id, killErr) ==
    /\ pc = "input"
    /\ LET w == stop_task(World, task_id, killErr)
       IN  /\ Install(w)
           /\ last' = CallOn("stop_task", task_id, task_id \in handles, w.ok)
    /\ Event(TRUE, killErr)
    /\ pc' = "process"
    /\ UNCHANGED <<graph, ready>>
    /\ UNCHANGED libVars

\* App::handle_key, 'q', and the end of run_tui: Executor::stop_all
KeyQuit(killErrs) ==
    /\ pc = "input"
    /\ killErrs \subseteq handles
    /\ Install(stop_all(World, handles, killErrs))
    /\ Event(TRUE, killErrs # {})
    /\ pc' = "stopped"
    /\ UNCHANGED <<graph, ready, last>>
    /\ UNCHANGED libVars

\* the child closes its side of the PTY: once the lines it wrote are read,
\* the master reads end of file
ProcClose(id) ==
    /\ proc[id] = "running"
    /\ proc' = [proc EXCEPT ![id] = "closed"]
    /\ UNCHANGED schedVars
    /\ UNCHANGED <<handles, reader, child, master, bus, trace, lines,
                   killed, rpc, pc, spawnErr, faults, keys>>
    /\ UNCHANGED libVars

\* the child has exited: its status can be collected
ProcExit(id) ==
    /\ proc[id] = "closed"
    /\ proc' = [proc EXCEPT ![id] = "exited"]
    /\ UNCHANGED schedVars
    /\ UNCHANGED <<handles, reader, child, master, bus, trace, lines,
                   killed, rpc, pc, spawnErr, faults, keys>>
    /\ UNCHANGED libVars

\* one round of the reader worker's loop: PTYHandle::read_line_blocking and
\* the match on its result, up to the event it sends. raw is the line the
\* child wrote, when the read yields one.
ReaderRead(id, outcome, raw) ==
    /\ rpc[id] = "read"
    /\ \/ /\ outcome = "eof"              \* reader is None: Ok(None)
          /\ ~reader[id]
          /\ rpc' = [rpc EXCEPT ![id] = "wait"]
          /\ UNCHANGED <<reader, lines, bus, trace>>
       \/ /\ outcome = "eof"              \* read_line returned Ok(0)
          /\ reader[id] /\ proc[id] \in {"closed", "exited"}
          /\ reader' = [reader EXCEPT ![id] = FALSE]
          /\ rpc' = [rpc EXCEPT ![id] = "wait"]
          /\ UNCHANGED <<lines, bus, trace>>
       \/ /\ outcome = "line"             \* read_line returned Ok(n)
          /\ reader[id] /\ lines < MaxLines
          /\ LET r == read_line_blocking(reader[id], outcome, raw)
                 w == on_line(World, id, CHOOSE l \in r.line : TRUE)
             IN  /\ bus' = w.bus
                 /\ trace' = w.trace
          /\ lines' = lines + 1
          /\ UNCHANGED <<reader, rpc>>
       \/ /\ outcome = "wouldblock"       \* Err(WouldBlock): Ok(Some(""))
          /\ reader[id] /\ proc[id] = "running"
          /\ LET r == read_line_blocking(reader[id], outcome, raw)
                 w == on_line(World, id, CHOOSE l \in r.line : TRUE)
             IN  /\ bus' = w.bus
                 /\ trace' = w.trace
          /\ UNCHANGED <<reader, rpc, lines>>
       \/ /\ outcome = "err"              \* any other Err(e) of read_line
          /\ reader[id]
          /\ LET w == send(World, Failed(id, "read error", 0))
             IN  /\ bus' = w.bus
                 /\ trace' = w.trace
          /\ rpc' = [rpc EXCEPT ![id] = after_terminal]
          /\ UNCHANGED <<reader, lines>>
       \/ /\ outcome = "joinerr"          \* spawn_blocking's JoinError
          /\ LET w == send(World, Failed(id, "Internal error", 0))
             IN  /\ bus' = w.bus
                 /\ trace' = w.trace
          /\ rpc' = [rpc EXCEPT ![id] = after_terminal]
          /\ UNCHANGED <<reader, lines>>
    /\ Event(FALSE, outcome \in {"err", "joinerr"})
    /\ UNCHANGED schedVars
    /\ UNCHANGED <<handles, child, master, proc, killed, pc, spawnErr>>
    /\ UNCHANGED libVars

\* the EOF branch: try_wait, then Completed or Failed
ReaderWait(id, waitErr) ==
    /\ rpc[id] = "wait"
    /\ LET command == CHOOSE c \in graph[id].command : TRUE
           waited == try_wait(child[id], proc[id], command, waitErr)
           w == send(World, eof_event(id, waited))
       IN  /\ bus' = w.bus
           /\ trace' = w.trace
    /\ rpc' = [rpc EXCEPT ![id] = after_terminal]
    /\ Event(FALSE, waitErr)
    /\ UNCHANGED schedVars
    /\ UNCHANGED <<handles, reader, child, master, proc, lines, killed,
                   pc, spawnErr>>
    /\ UNCHANGED libVars

\* the end of the reader worker: handles.remove(&task_id)
ReaderCleanup(id) ==
    /\ rpc[id] = "cleanup"
    /\ handles' = handles \ {id}
    /\ rpc' = [rpc EXCEPT ![id] = "done"]
    \* the last clones of the handle are dropped with the worker
    /\ reader' = [reader EXCEPT ![id] = FALSE]
    /\ child' = [child EXCEPT ![id] = FALSE]
    /\ master' = [master EXCEPT ![id] = FALSE]
    /\ proc' = [proc EXCEPT ![id] = "none"]
    /\ UNCHANGED schedVars
    /\ UNCHANGED <<bus, trace, lines, killed, pc, spawnErr, faults, keys>>
    /\ UNCHANGED libVars

ReadOutcomes == {"line", "eof", "wouldblock", "err", "joinerr"}

Next ==
    \/ \E envFails \in SUBSET TaskIds : StartReadyTasks(envFails)
    \/ ProcessEvents
    \/ Tick
    \/ \E id \in TaskIds, killErr \in BOOLEAN : KeyKill(id, killErr)
    \/ \E killErrs \in SUBSET TaskIds : KeyQuit(killErrs)
    \/ \E id \in TaskIds : ProcClose(id)
    \/ \E id \in TaskIds : ProcExit(id)
    \/ \E id \in TaskIds, outcome \in ReadOutcomes, raw \in RawLines :
          ReaderRead(id, outcome, raw)
    \/ \E id \in TaskIds, waitErr \in BOOLEAN : ReaderWait(id, waitErr)
    \/ \E id \in TaskIds : ReaderCleanup(id)

Spec == Init /\ [][Next]_vars

----------------------------------------------------------------------------
(* The driver loop on graphs whose commands all exit with 0, with no       *)
(* operating-system error and no key pressed, every worker, child and the  *)
(* driver scheduled fairly                                                 *)

LiveInit ==
    /\ \E deps \in ValidDeps, cmds \in [TaskIds -> {None, Some("true")}] :
          graph = MkGraph(deps, cmds)
    /\ status = [id \in TaskIds |-> "Pending"]
    /\ running = {}
    /\ ready = {}
    /\ last = Call("new", TRUE)
    /\ pc = "start0"
    /\ faults = 0
    /\ keys = 0
    /\ IdleExec
    /\ IdleLib

DriverStep == StartReadyTasks({}) \/ ProcessEvents \/ Tick

ChildStep(id) == ProcClose(id) \/ ProcExit(id)

WorkerStep(id) ==
    \/ \E outcome \in {"line", "eof"}, raw \in RawLines : ReaderRead(id, outcome, raw)
    \/ ReaderWait(id, FALSE)
    \/ ReaderCleanup(id)

WorkerIdle(id) == \E raw \in RawLines : ReaderRead(id, "wouldblock", raw)

LiveNext ==
    \/ DriverStep
    \/ \E id \in TaskIds : ChildStep(id)
    \/ \E id \in TaskIds : WorkerStep(id)
    \/ \E id \in TaskIds : WorkerIdle(id)

LiveSpec ==
    /\ LiveInit /\ [][LiveNext]_vars
    /\ WF_vars(DriverStep)
    /\ \A id \in TaskIds : WF_vars(ChildStep(id)) /\ WF_vars(WorkerStep(id))

----------------------------------------------------------------------------
(* The program on the chain graph, with every reader worker scheduled      *)
(* fairly: the child processes and the user are not                        *)

StopInit ==
    /\ Init
    /\ graph = MkGraph(ChainDeps, [a |-> Some("true"), b |-> Some("false"), c |-> None])

StopSpec ==
    /\ StopInit /\ [][Next]_vars
    /\ \A id \in TaskIds : WF_vars(WorkerStep(id))

----------------------------------------------------------------------------
(* The program on graphs in which a task without a command is ready beside *)
(* a task that has one, or waits for one                                    *)

AutoGraphs ==
    { MkGraph(FanInDeps,  [a |-> None,         b |-> Some("true"), c |-> Some("true")]),
      MkGraph(FanOutDeps, [a |-> Some("true"), b |-> None,         c |-> Some("true")]) }

AutoInit ==
    /\ graph \in AutoGraphs
    /\ status = [id \in TaskIds |-> "Pending"]
    /\ running = {}
    /\ ready = {}
    /\ last = Call("new", TRUE)
    /\ pc = "start0"
    /\ faults = 0
    /\ keys = 0
    /\ IdleExec
    /\ IdleLib

AutoSpec == AutoInit /\ [][Next]_vars

----------------------------------------------------------------------------
(* PTY handles driven through their public methods by any thread that      *)
(* holds a clone, beside the child processes                               *)

\* the ids PTYHandle::spawn was called for
PtyIds == {"a", "b"}

PtyInit ==
    /\ graph = MkGraph(ChainDeps, [a |-> Some("true"), b |-> Some("false"), c |-> None])
    /\ status = [id \in TaskIds |-> "Pending"]
    /\ running = {}
    /\ ready = {}
    /\ last = Call("spawn", TRUE)
    /\ pc = "pty"
    /\ faults = 0
    /\ keys = 0
    /\ handles = {}
    /\ reader = [id \in TaskIds |-> id \in PtyIds]
    /\ child = [id \in TaskIds |-> id \in PtyIds]
    /\ master = [id \in TaskIds |-> id \in PtyIds]
    /\ bus = <<>>
    /\ trace = [id \in TaskIds |-> <<>>]
    /\ proc = [id \in TaskIds |-> IF id \in PtyIds THEN "running" ELSE "none"]
    /\ lines = 0
    /\ killed = {}
    /\ rpc = [id \in TaskIds |-> "none"]
    /\ spawnErr = {}
    /\ IdleLib

\* a call on the handle of id: its name, whether kill had been called on the
\* handle before, and what it returned
PtyCall(op, id, ok, value) ==
    [op |-> op, task_id |-> id, after_kill |-> id \in killed, ok |-> ok,
     value |-> value]

PtyRead(id, outcome, raw) ==
    /\ id \in PtyIds
    /\ reader[id] =>
          \/ outcome = "eof" /\ proc[id] \in {"closed", "exited"}
          \/ outcome = "line" /\ lines < MaxLines
          \/ outcome = "wouldblock" /\ proc[id] = "running"
          \/ outcome = "err"
    /\ LET r == read_line_blocking(reader[id], outcome, raw)
       IN  /\ reader' = [reader EXCEPT ![id] = r.reader]
           /\ last' = PtyCall("read_line_blocking", id, r.ok, r.line)
           /\ lines' = IF reader[id] /\ outcome = "line" THEN lines + 1 ELSE lines
           /\ Event(FALSE, ~r.ok)
    /\ UNCHANGED <<graph, status, running, ready, pc>>
    /\ UNCHANGED <<handles, child, master, bus, trace, proc, killed, rpc, spawnErr>>
    /\ UNCHANGED libVars

PtySendInput(id, input, writeErr) ==
    /\ id \in PtyIds
    /\ lines < MaxLines
    /\ LET r == send_input(master[id], written[id], input, writeErr)
       IN  /\ written' = [written EXCEPT ![id] = r.written]
           /\ last' = PtyCall("send_input", id, r.ok, None)
           /\ lines' = IF r.written # written[id] THEN lines + 1 ELSE lines
           /\ Event(FALSE, master[id] /\ writeErr # "none")
    /\ UNCHANGED <<graph, status, running, ready, pc>>
    /\ UNCHANGED <<handles, reader, child, master, bus, trace, proc, killed, rpc,
                   spawnErr>>
    /\ UNCHANGED <<portVars, metricVars, lockVars>>

PtyTryWait(id, waitErr) ==
    /\ id \in PtyIds
    /\ LET command == CHOOSE c \in graph[id].command : TRUE
           waited == try_wait(child[id], proc[id], command, waitErr)
       IN  last' = PtyCall("try_wait", id, ~(child[id] /\ waitErr), waited)
    /\ Event(FALSE, child[id] /\ waitErr)
    /\ UNCHANGED <<graph, status, running, ready, pc>>
    /\ UNCHANGED execVars
    /\ UNCHANGED libVars

PtyKill(id, killErr) ==
    /\ id \in PtyIds
    /\ LET w == kill(World, id, killErr)
       IN  /\ Install(w)
           /\ last' = PtyCall("kill", id, w.ok, None)
    /\ Event(FALSE, child[id] /\ killErr)
    /\ UNCHANGED <<graph, ready, pc>>
    /\ UNCHANGED libVars

PtyNext ==
    \/ \E id \in PtyIds, outcome \in {"eof", "line", "wouldblock", "err"},
          raw \in RawLines : PtyRead(id, outcome, raw)
    \/ \E id \in PtyIds, input \in {"go"}, writeErr \in WriteErrs :
          PtySendInput(id, input, writeErr)
    \/ \E id \in PtyIds, waitErr \in BOOLEAN : PtyTryWait(id, waitErr)
    \/ \E id \in PtyIds, killErr \in BOOLEAN : PtyKill(id, killErr)
    \/ \E id \in PtyIds : ProcClose(id)
    \/ \E id \in PtyIds : ProcExit(id)

PtySpec == PtyInit /\ [][PtyNext]_vars

----------------------------------------------------------------------------
(* The driver handling Output events as time passes: the semantic side of  *)
(* App::process_events                                                     *)

\* the tasks that write output
MetricIds == {"a"}

\* no calls to record are being followed
NoRun == [task_id |-> "", base |-> 0, first |-> 0, at |-> 0, progress |-> 0, n |-> 0]

MetricInit ==
    /\ graph = MkGraph(ChainDeps, [id \in TaskIds |-> Some("true")])
    /\ status = [id \in TaskIds |-> "Pending"]
    /\ running = {}
    /\ ready = {}
    /\ last = [op |-> "new", task_id |-> "", parsed |-> FALSE, meaningful |-> FALSE,
               run |-> NoRun]
    /\ pc = "metrics"
    /\ faults = 0
    /\ keys = 0
    /\ IdleExec
    /\ IdleLib

MetricsApp ==
    [task_metrics |-> task_metrics, metric_history |-> metric_history,
     advisories |-> advisories]

\* the calls to record that are followed: on one task, with one progress,
\* each less than a second after the one before. base is the number of
\* snapshots before the first of them, first and at the times of the first
\* and the latest. Any call may be taken as the first of a new run (fresh).
FollowRun(run, task_id, progress, fresh, t) ==
    IF /\ ~fresh /\ run.n > 0 /\ run.task_id = task_id
       /\ run.progress = progress
       /\ t - run.at < TicksPerSecond
    THEN [run EXCEPT !.at = t, !.n = @ + 1]
    ELSE IF ~fresh /\ run.n > 0 /\ run.task_id # task_id
    THEN run
    ELSE [task_id |-> task_id, base |-> Len(metric_history[task_id]),
          first |-> t, at |-> t, progress |-> progress, n |-> 1]

\* App::process_events on Output{task_id, line} with a line that is not
\* empty: the line is stored, then update_task_metrics
OutputEvent(task_id, parsed, advice, fresh) ==
    /\ lines < MaxOutputs
    /\ lines' = lines + 1
    /\ LET app == update_task_metrics(MetricsApp, task_id, "x", parsed, advice, now)
           recorded == parsed # None /\ meaningful(CHOOSE x \in parsed : TRUE)
       IN  /\ task_metrics' = app.task_metrics
           /\ metric_history' = app.metric_history
           /\ advisories' = app.advisories
           /\ last' = [op |-> "output", task_id |-> task_id,
                       parsed |-> parsed # None,
                       meaningful |-> recorded,
                       run |-> IF recorded
                               THEN FollowRun(last.run, task_id,
                                              (CHOOSE x \in parsed : TRUE).progress,
                                              fresh, now)
                               ELSE last.run]
    /\ UNCHANGED <<graph, status, running, ready, pc, faults, keys, now>>
    /\ UNCHANGED <<handles, reader, child, master, bus, trace, proc, killed, rpc,
                   spawnErr>>
    /\ UNCHANGED <<portVars, ptyVars, lockVars>>

\* time passes
ClockTick ==
    /\ now < MaxTime
    /\ now' = now + 1
    /\ UNCHANGED <<schedVars, pc, faults, keys, execVars, portVars, ptyVars, lockVars,
                   task_metrics, metric_history, advisories>>

MetricNext ==
    \/ \E task_id \in MetricIds, parsed \in ParseResults, advice \in Advice,
          fresh \in BOOLEAN : OutputEvent(task_id, parsed, advice, fresh)
    \/ ClockTick

MetricSpec == MetricInit /\ [][MetricNext]_vars

----------------------------------------------------------------------------
(* SemanticCommand::render on every template and parameter map             *)

\* the strings of at most n characters
Strings(n) == UNION {[1..k -> Chars] : k \in 0..n}

\* the values a parameter may have
Values == {<<"x">>, <<"{", "b", "}">>, <<"{">>}

\* the parameter maps
ParamMaps == UNION {[ks -> Values] : ks \in SUBSET Keys}

RenderInit ==
    /\ graph = MkGraph(ChainDeps, [id \in TaskIds |-> Some("true")])
    /\ status = [id \in TaskIds |-> "Pending"]
    /\ running = {}
    /\ ready = {}
    /\ \E template \in Strings(MaxTemplate), params \in ParamMaps :
          \E order \in Orders(DOMAIN params) :
             last = [op |-> "new", template |-> template, params |-> params,
                     order |-> order, out |-> <<>>]
    /\ pc = "render"
    /\ faults = 0
    /\ keys = 0
    /\ IdleExec
    /\ IdleLib

Render ==
    /\ last.op = "new"
    /\ last' = [last EXCEPT !.op = "render",
                            !.out = render(last.template, last.params, last.order)]
    /\ UNCHANGED <<graph, status, running, ready, pc, faults, keys>>
    /\ UNCHANGED <<execVars, libVars>>

RenderNext == Render

RenderSpec == RenderInit /\ [][RenderNext]_vars

----------------------------------------------------------------------------
(* semantic/parsers/build.rs. A line of the output window is what the      *)
(* regular expressions of the parser find in it: the numbers of its first  *)
(* [cur/total], if any, and whether it matches finished_re, with a time    *)
(* that parses as f64 ("4.32") or not ("1.2.3"), and which of the phase    *)
(* markers it contains. Progress in thousandths.                           *)

StepLine(cur, total) == [step |-> Some(<<cur, total>>), finished |-> "no", text |-> ""]
FinishedLine(time)   == [step |-> None, finished |-> time, text |-> ""]
OtherLine            == [step |-> None, finished |-> "no", text |-> ""]

\* a line that contains "Compiling", "Linking" or "test result:"
MarkerLine(text)     == [step |-> None, finished |-> "no", text |-> text]

\* output.contains(text)
contains(output, text) == \E i \in 1..Len(output) : output[i].text = text

IsStep(line) == line.step # None
IsFinished(line) == line.finished # "no"

\* the latest of the lines of the window whose indices are in found, or None
Latest(output, found) ==
    IF found = {} THEN None
    ELSE Some(output[CHOOSE i \in found : \A j \in found : j <= i])

\* the first match of step_re, going through the lines in reverse
LatestStepLine(output) ==
    Latest(output, {i \in 1..Len(output) : IsStep(output[i])})

\* the first match of finished_re, going through the lines in reverse
LatestFinishedLine(output) ==
    Latest(output, {i \in 1..Len(output) : IsFinished(output[i])})

\* BuildParser::parse: the progress, whether metrics has build_time_secs, and
\* the phase
BuildParser_parse(output) ==
    LET fin == LatestFinishedLine(output)
        stp == LatestStepLine(output)
        build_time_secs == fin # None /\ (CHOOSE l \in fin : TRUE).finished = "time"
        nums == CHOOSE n \in (CHOOSE l \in stp : TRUE).step : TRUE
    IN  [progress |-> IF build_time_secs THEN 1000
                      ELSE IF stp # None /\ nums[2] > 0
                      THEN (nums[1] * 1000) \div nums[2]
                      ELSE 0,
         build_time_secs |-> build_time_secs,
         phase |-> IF contains(output, "Compiling") /\ ~build_time_secs
                   THEN Some("Compiling")
                   ELSE IF contains(output, "Linking") THEN Some("Linking")
                   ELSE IF contains(output, "test result:") THEN Some("Testing")
                   ELSE IF build_time_secs THEN Some("Finished")
                   ELSE None]

BuildLines ==
    {StepLine(cur, total) : cur \in 0..MaxStep, total \in 0..MaxStep}
        \cup {FinishedLine("time"), FinishedLine("badtime"), OtherLine}
        \cup {MarkerLine(text) : text \in {"Compiling", "Linking", "test result:"}}

\* the output windows
Windows == UNION {[1..k -> BuildLines] : k \in 0..MaxWindow}

BuildInit ==
    /\ graph = MkGraph(ChainDeps, [id \in TaskIds |-> Some("true")])
    /\ status = [id \in TaskIds |-> "Pending"]
    /\ running = {}
    /\ ready = {}
    /\ \E output \in Windows :
          last = [op |-> "new", output |-> output,
                  value |-> [progress |-> 0, build_time_secs |-> FALSE,
                             phase |-> None]]
    /\ pc = "build"
    /\ faults = 0
    /\ keys = 0
    /\ IdleExec
    /\ IdleLib

BuildParse ==
    /\ last.op = "new"
    /\ last' = [last EXCEPT !.op = "parse", !.value = BuildParser_parse(last.output)]
    /\ UNCHANGED <<graph, status, running, ready, pc, faults, keys>>
    /\ UNCHANGED <<execVars, libVars>>

BuildNext == BuildParse

BuildSpec == BuildInit /\ [][BuildNext]_vars

----------------------------------------------------------------------------
(* One TaskMetricHistory: record and estimate_remaining while time passes  *)

HistoryId == "a"

\* the progress values given to record, in thousandths
Progresses == {0, 500, 1000}

\* most calls of record in one run
MaxRecords == 3

\* a history one snapshot short of the cap: the progress went 0, 25%, 50%
\* and again within the first tick
NearlyFull ==
    [i \in 1..(max_snapshots - 1) |-> MetricSnapshot(0, 250 * (i % 3), << >>)]

\* TaskMetricHistory::new(), or a history that has been recorded into
HistoryInit ==
    /\ graph = MkGraph(ChainDeps, [id \in TaskIds |-> Some("true")])
    /\ status = [id \in TaskIds |-> "Pending"]
    /\ running = {}
    /\ ready = {}
    /\ last = [op |-> "new", progress |-> 0, value |-> None]
    /\ pc = "history"
    /\ faults = 0
    /\ keys = 0
    /\ IdleExec
    /\ IdlePorts /\ IdlePty /\ IdleLocks
    /\ task_metrics = [id \in TaskIds |-> None]
    /\ \E h \in {<<>>, NearlyFull} :
          metric_history = [id \in TaskIds |-> IF id = HistoryId THEN h ELSE <<>>]
    /\ advisories = [id \in TaskIds |-> None]
    /\ now = 0

HistoryRecord(progress) ==
    /\ lines < MaxRecords
    /\ lines' = lines + 1
    /\ metric_history' =
          [metric_history EXCEPT
              ![HistoryId] = record(metric_history[HistoryId], progress, << >>, now)]
    /\ last' = [op |-> "record", progress |-> progress, value |-> None]
    /\ UNCHANGED <<graph, status, running, ready, pc, faults, keys, now>>
    /\ UNCHANGED <<handles, reader, child, master, bus, trace, proc, killed, rpc,
                   spawnErr>>
    /\ UNCHANGED <<portVars, ptyVars, lockVars, task_metrics, advisories>>

HistoryEstimate ==
    /\ last' = [op |-> "estimate_remaining", progress |-> 0,
                value |-> estimate_remaining(metric_history[HistoryId])]
    /\ UNCHANGED <<graph, status, running, ready, pc, faults, keys>>
    /\ UNCHANGED execVars
    /\ UNCHANGED libVars

\* the task prints nothing for a week
Sleep ==
    /\ now <= MaxTime
    /\ now' = now + EtaCap
    /\ UNCHANGED <<schedVars, pc, faults, keys, execVars, portVars, ptyVars, lockVars,
                   task_metrics, metric_history, advisories>>

HistoryNext ==
    \/ \E progress \in Progresses : HistoryRecord(progress)
    \/ HistoryEstimate
    \/ ClockTick
    \/ Sleep

HistorySpec == HistoryInit /\ [][HistoryNext]_vars

----------------------------------------------------------------------------
(* Semantic commands sent to running tasks, beside their reader workers,   *)
(* their child processes and Executor::stop_task                           *)

\* the tasks that were started
SemIds == {"a", "b"}

Labels == {"lr", "nope"}

SemParams == {<< >>, [a |-> <<"b">>]}

SemInit ==
    /\ graph = MkGraph(ChainDeps, [id \in TaskIds |-> Some("true")])
    /\ status = [id \in TaskIds |-> IF id \in SemIds THEN "InProgress" ELSE "Pending"]
    /\ running = SemIds
    /\ ready = {}
    /\ last = Call("new", TRUE)
    /\ pc = "semantic"
    /\ faults = 0
    /\ keys = 0
    /\ handles = SemIds
    /\ reader = [id \in TaskIds |-> id \in SemIds]
    /\ child = [id \in TaskIds |-> id \in SemIds]
    /\ master = [id \in TaskIds |-> id \in SemIds]
    /\ bus = <<>>
    /\ trace = [id \in TaskIds |-> <<>>]
    /\ proc = [id \in TaskIds |-> IF id \in SemIds THEN "running" ELSE "none"]
    /\ lines = 0
    /\ killed = {}
    /\ rpc = [id \in TaskIds |-> IF id \in SemIds THEN "read" ELSE "none"]
    /\ spawnErr = {}
    /\ IdleLib

\* a call of execute_semantic_command: its number, its arguments, whether
\* the task had a handle in the table and whether the label was one of its
\* commands, the text it had to send, the failure of the write that was
\* injected, and its result
SemCall(task_id, label, params, order, writeErr, r) ==
    LET cmds == get_semantic_commands(task_id)
        known == cmds # None /\ label \in DOMAIN (CHOOSE m \in cmds : TRUE)
    IN  [op |-> "execute_semantic_command", seq |-> lines,
         task_id |-> task_id, label |-> label,
         live |-> task_id \in handles, known |-> known,
         text |-> IF known
                  THEN Str(render((CHOOSE m \in cmds : TRUE)[label], params, order))
                  ELSE "",
         writeErr |-> writeErr, ok |-> r.ok]

SemExecute(task_id, label, params, order, writeErr) ==
    /\ lines < MaxLines
    /\ LET r == execute_semantic_command(handles, master, written, task_id, label,
                                         params, order, writeErr)
       IN  /\ written' = r.written
           /\ last' = SemCall(task_id, label, params, order, writeErr, r)
           /\ lines' = lines + 1
           /\ Event(FALSE, writeErr # "none")
    /\ UNCHANGED <<graph, status, running, ready, pc>>
    /\ UNCHANGED <<handles, reader, child, master, bus, trace, proc, killed, rpc,
                   spawnErr>>
    /\ UNCHANGED <<portVars, metricVars, lockVars>>

\* Executor::stop_task
SemStop(task_id, killErr) ==
    /\ LET w == stop_task(World, task_id, killErr)
       IN  /\ Install(w)
           /\ last' = CallOn("stop_task", task_id, task_id \in handles, w.ok)
    /\ Event(TRUE, killErr)
    /\ UNCHANGED <<graph, ready, pc>>
    /\ UNCHANGED libVars

SemNext ==
    \/ \E task_id \in TaskIds \cup {UnknownId}, label \in Labels,
          params \in SemParams, writeErr \in WriteErrs :
          \E order \in Orders(DOMAIN params) :
             SemExecute(task_id, label, params, order, writeErr)
    \/ \E id \in SemIds, killErr \in BOOLEAN : SemStop(id, killErr)
    \/ \E id \in SemIds : ProcClose(id)
    \/ \E id \in SemIds : ProcExit(id)
    \/ \E id \in SemIds, outcome \in ReadOutcomes, raw \in RawLines :
          ReaderRead(id, outcome, raw)
    \/ \E id \in SemIds, waitErr \in BOOLEAN : ReaderWait(id, waitErr)
    \/ \E id \in SemIds : ReaderCleanup(id)

SemSpec == SemInit /\ [][SemNext]_vars

----------------------------------------------------------------------------
(* The port registry driven through its public methods, beside the other   *)
(* processes of the machine that bind and free ports                       *)

Registry == [allocations |-> allocations, port_map |-> port_map]

\* PortRegistry::default() with any ports bindable
PortInit ==
    /\ graph = MkGraph(ChainDeps, [id \in TaskIds |-> Some("true")])
    /\ status = [id \in TaskIds |-> "Pending"]
    /\ running = {}
    /\ ready = {}
    /\ last = Call("default", TRUE)
    /\ pc = "ports"
    /\ faults = 0
    /\ keys = 0
    /\ IdleExec
    /\ allocations = << >>
    /\ port_map = << >>
    /\ bindable \in SUBSET Ports
    /\ ports_json = None
    /\ project_ports = << >>
    /\ IdlePty /\ IdleMetrics /\ IdleLocks

\* a registry call: its name, its project, its other argument, the status
\* get_status gave before it, and its result (the port or the count of an Ok)
PortCall(op, project, arg, r) ==
    [op |-> op, project |-> project, arg |-> arg, ok |-> r.ok,
     port |-> IF "port" \in DOMAIN r THEN r.port ELSE None,
     count |-> IF "count" \in DOMAIN r /\ r.ok THEN r.count ELSE 0,
     before |-> get_status(Registry, bindable, project)]

PortApply(op, project, arg, r) ==
    /\ allocations' = r.reg.allocations
    /\ port_map' = r.reg.port_map
    /\ ports_json' = IF r.saved THEN save_to(ports_json, r.reg) ELSE ports_json
    /\ last' = PortCall(op, project, arg, r)
    /\ UNCHANGED <<graph, status, running, ready, pc, faults, keys, bindable,
                   project_ports>>
    /\ UNCHANGED <<execVars, ptyVars, metricVars, lockVars>>

PortGetOrAllocate(project, preferred, saveErr) ==
    PortApply("get_or_allocate", project, preferred,
              get_or_allocate(Registry, bindable, project, preferred, saveErr))

PortMarkActive(project, pid, saveErr) ==
    PortApply("mark_active", project, pid, mark_active(Registry, project, pid, now, saveErr))

PortMarkInactive(project, saveErr) ==
    PortApply("mark_inactive", project, None, mark_inactive(Registry, project, saveErr))

PortRelease(project, saveErr) ==
    PortApply("release", project, None, release(Registry, project, saveErr))

PortAppNew(project, saveErr) ==
    PortApply("App::new", project, None, App_new(Registry, bindable, project, saveErr))

PortCleanupStale(saveErr) ==
    PortApply("cleanup_stale", "", None, cleanup_stale(Registry, bindable, saveErr))

PortRefreshStatus(alive, saveErr) ==
    PortApply("refresh_status", "", alive, refresh_status(Registry, alive, saveErr))

\* some process of the machine binds the port, or frees it
PortTaken(port) ==
    /\ bindable' = IF port \in bindable THEN bindable \ {port}
                   ELSE bindable \cup {port}
    /\ last' = [op |-> "bind", project |-> "", arg |-> None, ok |-> TRUE,
                port |-> Some(port), count |-> 0, before |-> "Available"]
    /\ UNCHANGED <<graph, status, running, ready, pc, faults, keys,
                   allocations, port_map, ports_json, project_ports>>
    /\ UNCHANGED <<execVars, ptyVars, metricVars, lockVars>>

PortNext ==
    \/ \E project \in Projects, preferred \in {None} \cup {Some(port) : port \in Ports},
          saveErr \in BOOLEAN : PortGetOrAllocate(project, preferred, saveErr)
    \/ \E project \in Projects, pid \in {None} \cup {Some(x) : x \in Pids},
          saveErr \in BOOLEAN : PortMarkActive(project, pid, saveErr)
    \/ \E project \in Projects, saveErr \in BOOLEAN : PortMarkInactive(project, saveErr)
    \/ \E project \in Projects, saveErr \in BOOLEAN : PortRelease(project, saveErr)
    \/ \E saveErr \in BOOLEAN : PortCleanupStale(saveErr)
    \/ \E project \in Projects, saveErr \in BOOLEAN : PortAppNew(project, saveErr)
    \/ \E alive \in SUBSET Pids, saveErr \in BOOLEAN : PortRefreshStatus(alive, saveErr)
    \/ \E port \in Ports : PortTaken(port)

PortSpec == PortInit /\ [][PortNext]_vars

----------------------------------------------------------------------------
(* The registry's active flags while the system clock advances             *)

\* PortRegistry::default() with every port bindable
StampInit ==
    /\ graph = MkGraph(ChainDeps, [id \in TaskIds |-> Some("true")])
    /\ status = [id \in TaskIds |-> "Pending"]
    /\ running = {}
    /\ ready = {}
    /\ last = Call("default", TRUE)
    /\ pc = "stamps"
    /\ faults = 0
    /\ keys = 0
    /\ IdleExec
    /\ allocations = << >>
    /\ port_map = << >>
    /\ bindable = Ports
    /\ ports_json = None
    /\ project_ports = << >>
    /\ IdlePty /\ IdleMetrics /\ IdleLocks

StampNext ==
    \/ \E project \in Projects : PortGetOrAllocate(project, None, FALSE)
    \/ \E project \in Projects, pid \in {None} \cup {Some(x) : x \in Pids},
          saveErr \in BOOLEAN : PortMarkActive(project, pid, saveErr)
    \/ \E project \in Projects, saveErr \in BOOLEAN : PortMarkInactive(project, saveErr)
    \/ ClockTick

StampSpec == StampInit /\ [][StampNext]_vars

----------------------------------------------------------------------------
(* The registry and its file: every call may find the file unwritable      *)

\* PortRegistry::load() with no ports file yet
FileInit ==
    /\ graph = MkGraph(ChainDeps, [id \in TaskIds |-> Some("true")])
    /\ status = [id \in TaskIds |-> "Pending"]
    /\ running = {}
    /\ ready = {}
    /\ last = Call("load", TRUE)
    /\ pc = "files"
    /\ faults = 0
    /\ keys = 0
    /\ IdleExec
    /\ allocations = << >>
    /\ port_map = << >>
    /\ bindable = Ports
    /\ ports_json = Some(<< >>)
    /\ project_ports = << >>
    /\ IdlePty /\ IdleMetrics /\ IdleLocks

FileNext ==
    \/ \E project \in Projects, saveErr \in BOOLEAN :
          PortGetOrAllocate(project, None, saveErr)
    \/ \E project \in Projects, pid \in {Some(x) : x \in Pids},
          saveErr \in BOOLEAN : PortMarkActive(project, pid, saveErr)
    \/ \E project \in Projects, saveErr \in BOOLEAN : PortMarkInactive(project, saveErr)
    \/ \E project \in Projects, saveErr \in BOOLEAN : PortRelease(project, saveErr)
    \/ \E saveErr \in BOOLEAN : PortCleanupStale(saveErr)
    \/ \E alive \in SUBSET Pids, saveErr \in BOOLEAN : PortRefreshStatus(alive, saveErr)
    \/ \E port \in PORT_RANGE_START..PORT_RANGE_END : PortTaken(port)

FileSpec == FileInit /\ [][FileNext]_vars

----------------------------------------------------------------------------
(* One PortManager, the session's project_ports beside its registry, while *)
(* other processes bind and free ports                                     *)

\* PortManager::new() with no ports file yet
ManagerInit ==
    /\ graph = MkGraph(ChainDeps, [id \in TaskIds |-> Some("true")])
    /\ status = [id \in TaskIds |-> "Pending"]
    /\ running = {}
    /\ ready = {}
    /\ last = Call("new", TRUE)
    /\ pc = "manager"
    /\ faults = 0
    /\ keys = 0
    /\ IdleExec
    /\ allocations = << >>
    /\ port_map = << >>
    /\ bindable = Ports
    /\ ports_json = None
    /\ project_ports = << >>
    /\ IdlePty /\ IdleMetrics /\ IdleLocks

\* a PortManager call that goes to the registry alone
ManagerApply(op, project, arg, r) ==
    /\ allocations' = r.reg.allocations
    /\ port_map' = r.reg.port_map
    /\ last' = PortCall(op, project, arg, r)
    /\ UNCHANGED <<graph, status, running, ready, pc, faults, keys, bindable,
                   ports_json, project_ports>>
    /\ UNCHANGED <<execVars, ptyVars, metricVars, lockVars>>

ManagerAllocate(project, preferred, saveErr) ==
    LET r == PortManager_allocate(Registry, project_ports, bindable, project,
                                  preferred, saveErr)
    IN  /\ allocations' = r.reg.allocations
        /\ port_map' = r.reg.port_map
        /\ project_ports' = r.project_ports
        /\ last' = PortCall("allocate", project, preferred, r)
        /\ UNCHANGED <<graph, status, running, ready, pc, faults, keys,
                       bindable, ports_json>>
        /\ UNCHANGED <<execVars, ptyVars, metricVars, lockVars>>

ManagerActivate(project, pid, saveErr) ==
    ManagerApply("activate", project, pid,
                 mark_active(Registry, project, pid, now, saveErr))

ManagerDeactivate(project, saveErr) ==
    ManagerApply("deactivate", project, None,
                 mark_inactive(Registry, project, saveErr))

ManagerCleanup(saveErr) ==
    ManagerApply("cleanup", "", None, cleanup_stale(Registry, bindable, saveErr))

ManagerGetPort(project) ==
    /\ last' = [op |-> "get_port", project |-> project, arg |-> None,
                ok |-> TRUE, port |-> PortManager_get_port(project_ports, project),
                count |-> 0, before |-> get_status(Registry, bindable, project)]
    /\ UNCHANGED <<graph, status, running, ready, pc, faults, keys>>
    /\ UNCHANGED <<execVars, libVars>>

ManagerNext ==
    \/ \E project \in Projects, preferred \in {None, Some(PORT_RANGE_START)},
          saveErr \in BOOLEAN : ManagerAllocate(project, preferred, saveErr)
    \/ \E project \in Projects, pid \in {Some(x) : x \in Pids} :
          ManagerActivate(project, pid, FALSE)
    \/ \E project \in Projects : ManagerDeactivate(project, FALSE)
    \/ \E saveErr \in BOOLEAN : ManagerCleanup(saveErr)
    \/ \E project \in Projects : ManagerGetPort(project)
    \/ \E port \in PORT_RANGE_START..PORT_RANGE_END : PortTaken(port)

ManagerSpec == ManagerInit /\ [][ManagerNext]_vars

----------------------------------------------------------------------------
(* The Executor and its PTY handles at the level of their Mutexes: the     *)
(* driver's calls and the reader workers take and release the lock of the  *)
(* handle table and the reader, child, master and history locks of every   *)
(* handle. A thread that finds a Mutex held waits: its step is not enabled *)

\* most PTY handles spawned in one run
MaxStarts == 2

ExecIds == {"a", "b"}

\* the threads: the driver, and the reader worker of the handle h
DriverThread == <<"driver", 0>>
WorkerThread(h) == <<"worker", h>>

\* Executor.handles' Mutex, and the Mutex around a field of the handle h
HandlesLock == <<"handles", 0>>
FieldLock(field, h) == <<field, h>>

Free(own, l) == l \notin DOMAIN own

\* Mutex::lock by the thread t, once the Mutex is free
Acquire(own, l, t) == [x \in DOMAIN own \cup {l} |-> IF x = l THEN t ELSE own[x]]

\* the drop of the MutexGuard
Release(own, l) == [x \in DOMAIN own \ {l} |-> own[x]]

\* read_line_blocking that returns with the reader's guard still held
unlock_reader_Forgotten(own, h) == own

\* the end of read_line_blocking: reader_guard goes out of scope
unlock_reader(own, h) == Release(own, FieldLock("reader", h))

\* PTYHandle::spawn: the handle, its process and (from start_task) its
\* worker. The master and the history are not followed: their locks are
\* held for the length of one assignment and nothing waits on their values.
PTYHandle(task_id) ==
    [task_id |-> task_id, reader |-> TRUE, child |-> TRUE,
     process |-> "running", worker |-> "idle"]

\* PTYHandle::kill, its first block: the child is taken and killed.
\* killErr: child.kill() returned an error
kill_child(p, killErr) ==
    IF p.child
    THEN IF killErr THEN [p EXCEPT !.child = FALSE]
         ELSE [p EXCEPT !.child = FALSE, !.process = "exited"]
    ELSE p

\* PTYHandle::kill, its second and third block: reader and master are closed
kill_close(p) == [p EXCEPT !.reader = FALSE]

\* HashMap::insert and HashMap::remove on Executor.handles
Insert(tbl, task_id, h) ==
    [x \in DOMAIN tbl \cup {task_id} |-> IF x = task_id THEN h ELSE tbl[x]]

Remove(tbl, task_id) == [x \in DOMAIN tbl \ {task_id} |-> tbl[x]]

\* Executor::new
ExecInit ==
    /\ graph = MkGraph(ChainDeps, [id \in TaskIds |-> Some("true")])
    /\ status = [id \in TaskIds |-> "Pending"]
    /\ running = {}
    /\ ready = {}
    /\ last = Call("new", TRUE)
    /\ pc = "executor"
    /\ faults = 0
    /\ keys = 0
    /\ IdleExec
    /\ IdlePorts /\ IdlePty /\ IdleMetrics
    /\ IdleLocks

ExecFrame ==
    /\ UNCHANGED <<graph, status, running, ready, last, pc, faults, keys>>
    /\ UNCHANGED <<handles, reader, child, master, bus, trace, proc, killed,
                   rpc, spawnErr>>
    /\ UNCHANGED <<portVars, ptyVars, metricVars>>

ExecOps == {"start_task", "stop_task", "stop_all", "send_input",
            "get_output", "is_running"}

\* the driver calls a method of the Executor
ExecIssue(op, task_id) ==
    /\ call.op = "idle"
    /\ op = "start_task" => Len(ptys) < MaxStarts
    /\ call' = [op |-> op, task_id |-> task_id, step |-> "handles",
                todo |-> {}, cur |-> 0]
    /\ UNCHANGED <<handle_table, ptys, owner, lines>>
    /\ ExecFrame

\* the call returns
Return == [op |-> "idle"]

\* Executor::start_task: spawn, insert under the table's lock, send Started,
\* launch the reader worker. envFail: PTYHandle::spawn returned an error
ExecStartTask(envFail) ==
    /\ call.op = "start_task"
    /\ IF envFail
       THEN UNCHANGED <<handle_table, ptys>>
       ELSE /\ Free(owner, HandlesLock)
            /\ ptys' = Append(ptys, PTYHandle(call.task_id))
            /\ handle_table' = Insert(handle_table, call.task_id, Len(ptys) + 1)
    /\ call' = Return
    /\ UNCHANGED <<owner, lines>>
    /\ ExecFrame

\* Executor::send_input: the table's lock, then the handle's master lock
ExecSendInput ==
    /\ call.op = "send_input"
    /\ Free(owner, HandlesLock)
    /\ call.task_id \in DOMAIN handle_table =>
          Free(owner, FieldLock("master", handle_table[call.task_id]))
    /\ call' = Return
    /\ UNCHANGED <<handle_table, ptys, owner, lines>>
    /\ ExecFrame

\* Executor::get_output: the table's lock, then the handle's history lock
ExecGetOutput ==
    /\ call.op = "get_output"
    /\ Free(owner, HandlesLock)
    /\ call.task_id \in DOMAIN handle_table =>
          Free(owner, FieldLock("output_history", handle_table[call.task_id]))
    /\ call' = Return
    /\ UNCHANGED <<handle_table, ptys, owner, lines>>
    /\ ExecFrame

\* Executor::is_running: the table's lock
ExecIsRunning ==
    /\ call.op = "is_running"
    /\ Free(owner, HandlesLock)
    /\ call' = Return
    /\ UNCHANGED <<handle_table, ptys, owner, lines>>
    /\ ExecFrame

\* Executor::stop_task and Executor::stop_all take the table's lock, which
\* they hold until they return, and find the handles to kill
ExecStop ==
    /\ call.op \in {"stop_task", "stop_all"}
    /\ call.step = "handles"
    /\ Free(owner, HandlesLock)
    /\ owner' = Acquire(owner, HandlesLock, DriverThread)
    /\ call' = [call EXCEPT
                  !.step = "child",
                  !.todo = IF call.op = "stop_all"
                           THEN {handle_table[id] : id \in DOMAIN handle_table}
                           ELSE {handle_table[id] :
                                   id \in DOMAIN handle_table \cap {call.task_id}}]
    /\ UNCHANGED <<handle_table, ptys, lines>>
    /\ ExecFrame

\* PTYHandle::kill on the next handle, up to the lock of its reader; with no
\* handle left the call returns and the table's lock is released. An error
\* of child.kill() ends kill and stop_task, and is logged by stop_all
ExecKillChild(h, killErr) ==
    /\ call.op \in {"stop_task", "stop_all"}
    /\ call.step = "child"
    /\ IF call.todo = {}
       THEN /\ h = 0 /\ ~killErr
            /\ owner' = Release(owner, HandlesLock)
            /\ call' = Return
            /\ UNCHANGED ptys
       ELSE /\ h \in call.todo
            /\ Free(owner, FieldLock("child", h))
            /\ killErr => ptys[h].child
            /\ ptys' = [ptys EXCEPT ![h] = kill_child(@, killErr)]
            /\ IF killErr
               THEN IF call.op = "stop_task"
                    THEN /\ owner' = Release(owner, HandlesLock)
                         /\ call' = Return
                    ELSE /\ call' = [call EXCEPT !.todo = @ \ {h}]
                         /\ UNCHANGED owner
               ELSE /\ call' = [call EXCEPT !.step = "reader", !.cur = h]
                    /\ UNCHANGED owner
    /\ UNCHANGED <<handle_table, lines>>
    /\ ExecFrame

\* PTYHandle::kill from the lock of the reader on: reader and master are
\* set to None, each under its lock
ExecKillClose ==
    /\ call.op \in {"stop_task", "stop_all"}
    /\ call.step = "reader"
    /\ Free(owner, FieldLock("reader", call.cur))
    /\ Free(owner, FieldLock("master", call.cur))
    /\ ptys' = [ptys EXCEPT ![call.cur] = kill_close(@)]
    /\ call' = [call EXCEPT !.step = "child", !.todo = @ \ {call.cur}, !.cur = 0]
    /\ UNCHANGED <<handle_table, owner, lines>>
    /\ ExecFrame

\* the worker enters read_line_blocking: it takes the reader's lock; with
\* the reader gone it returns Ok(None) at once, and the worker's EOF arm
\* follows (try_wait under the child's lock, the event, break); else it
\* blocks in read_line with the lock held
WorkerLock(h) ==
    /\ h \in DOMAIN ptys
    /\ ptys[h].worker = "idle"
    /\ Free(owner, FieldLock("reader", h))
    /\ IF ptys[h].reader
       THEN /\ owner' = Acquire(owner, FieldLock("reader", h), WorkerThread(h))
            /\ ptys' = [ptys EXCEPT ![h].worker = "read"]
       ELSE /\ Free(owner, FieldLock("child", h))
            /\ ptys' = [ptys EXCEPT ![h].worker = after_terminal]
            /\ UNCHANGED owner
    /\ UNCHANGED <<handle_table, call, lines>>
    /\ ExecFrame

\* read_line returns, and read_line_blocking with it; the worker goes to the
\* arm of its match
WorkerRead(h, outcome) ==
    /\ h \in DOMAIN ptys
    /\ ptys[h].worker = "read"
    /\ LET r == read_line_blocking(TRUE, outcome, "x\n")
       IN  \/ /\ outcome = "line"         \* pushed under the history's lock
              /\ lines < MaxLines
              /\ Free(owner, FieldLock("output_history", h))
              /\ r.line # None
              /\ ptys' = [ptys EXCEPT ![h].worker = "idle"]
              /\ lines' = lines + 1
           \/ /\ outcome = "eof"          \* then the EOF arm, as above
              /\ ptys[h].process = "exited"
              /\ Free(owner, FieldLock("child", h))
              /\ ptys' = [ptys EXCEPT ![h].reader = r.reader,
                                      ![h].worker = after_terminal]
              /\ UNCHANGED lines
           \/ /\ outcome = "wouldblock"
              /\ ptys[h].process = "running"
              /\ r.line = Some("")
              /\ ptys' = [ptys EXCEPT ![h].worker = "idle"]
              /\ UNCHANGED lines
           \/ /\ outcome = "err"          \* Failed, break
              /\ ~r.ok
              /\ ptys' = [ptys EXCEPT ![h].worker = after_terminal]
              /\ UNCHANGED lines
    /\ owner' = unlock_reader(owner, h)
    /\ UNCHANGED <<handle_table, call>>
    /\ ExecFrame

\* the worker's end: handles.remove(&task_id) under the table's lock
WorkerCleanup(h) ==
    /\ h \in DOMAIN ptys
    /\ ptys[h].worker = "cleanup"
    /\ Free(owner, HandlesLock)
    /\ handle_table' = Remove(handle_table, ptys[h].task_id)
    /\ ptys' = [ptys EXCEPT ![h].worker = "done"]
    /\ UNCHANGED <<owner, call, lines>>
    /\ ExecFrame

\* the child process of the handle exits, and its side of the PTY closes
ChildExit(h) ==
    /\ h \in DOMAIN ptys
    /\ ptys[h].process = "running"
    /\ ptys' = [ptys EXCEPT ![h].process = "exited"]
    /\ UNCHANGED <<handle_table, owner, call, lines>>
    /\ ExecFrame

\* the driver goes on with the call it is in
DriverProgress ==
    \/ \E envFail \in BOOLEAN : ExecStartTask(envFail)
    \/ ExecSendInput
    \/ ExecGetOutput
    \/ ExecIsRunning
    \/ ExecStop
    \/ \E h \in 0..MaxStarts, killErr \in BOOLEAN : ExecKillChild(h, killErr)
    \/ ExecKillClose

\* the worker goes on, when it can
WorkerProgress(h) ==
    \/ WorkerLock(h)
    \/ WorkerRead(h, "eof")
    \/ WorkerCleanup(h)

ExecNext ==
    \/ \E op \in ExecOps, task_id \in ExecIds : ExecIssue(op, task_id)
    \/ DriverProgress
    \/ \E h \in 1..MaxStarts : WorkerProgress(h)
    \/ \E h \in 1..MaxStarts, outcome \in {"line", "wouldblock", "err"} :
          WorkerRead(h, outcome)
    \/ \E h \in 1..MaxStarts : ChildExit(h)

\* any sequence of calls of the Executor's methods, beside the workers and
\* the child processes
ExecSpec == ExecInit /\ [][ExecNext]_vars

----------------------------------------------------------------------------
(* The Executor under the driver, which starts a task once: run_tui starts *)
(* the tasks that are Pending, and no task goes back to Pending            *)

DriverIssue(op, task_id) ==
    /\ op = "start_task" => \A h \in DOMAIN ptys : ptys[h].task_id # task_id
    /\ ExecIssue(op, task_id)

DriverExecNext ==
    \/ \E op \in ExecOps, task_id \in ExecIds : DriverIssue(op, task_id)
    \/ DriverProgress
    \/ \E h \in 1..MaxStarts : WorkerProgress(h)
    \/ \E h \in 1..MaxStarts, outcome \in {"line", "wouldblock", "err"} :
          WorkerRead(h, outcome)
    \/ \E h \in 1..MaxStarts : ChildExit(h)

\* the driver, every worker and the blocking pool are scheduled, and every
\* child process exits in the end
DriverExecSpec ==
    /\ ExecInit /\ [][DriverExecNext]_vars
    /\ WF_vars(DriverProgress)
    /\ \A h \in 1..MaxStarts : WF_vars(WorkerProgress(h)) /\ WF_vars(ChildExit(h))

----------------------------------------------------------------------------
(* Properties *)

CommandOf(id) == CHOOSE c \in graph[id].command : TRUE

HasCommand(id) == graph[id].command # None

\* every id a task depends on, directly or through other tasks
RECURSIVE Closure(_, _)
Closure(g, ids) ==
    LET more == ids \cup UNION {DepsOf(g, id) : id \in ids \cap DOMAIN g}
    IN  IF more = ids THEN ids ELSE Closure(g, more)

TransDeps(g, id) == Closure(g, DepsOf(g, id))

\* C1: in every scheduler state, a task is in the result of schedule_next()
\* exactly when it is Pending, each of its dependencies is a task whose
\* status is Done, and it is not in the running set.
C1_ReadinessCorrect ==
    \A t \in TaskIds :
        t \in schedule_next(graph, status, running)
            <=> /\ status[t] = "Pending"
                /\ \A d \in DepsOf(graph, t) : d \in TaskIds /\ status[d] = "Done"
                /\ t \notin running

\* schedule_next() has just returned a task and left out a Pending one whose
\* dependency is not Done
C1_Witness ==
    /\ last = Call("schedule_next", TRUE)
    /\ ready = schedule_next(graph, status, running)
    /\ ready # {}
    /\ \E t \in TaskIds \ ready :
          status[t] = "Pending" /\ \E d \in DepsOf(graph, t) \cap TaskIds : status[d] # "Done"
    /\ running # {}

\* C2: on the bus, for every id, Started comes before every Output and
\* before the terminal event, and every Output comes before the terminal
\* event.
C2_EventOrdering ==
    \A id \in TaskIds :
        \A i \in 1..Len(trace[id]) :
            /\ trace[id][i].kind \in {"Output", "Completed", "Failed"}
                  => \E j \in 1..(i - 1) : trace[id][j].kind = "Started"
            /\ trace[id][i].kind = "Output"
                  => \A j \in 1..(i - 1) : ~IsTerminal(trace[id][j])

\* a task has sent Started, an Output and its terminal event while another
\* task's worker is still reading
C2_Witness ==
    \E id \in TaskIds, other \in TaskIds :
        /\ Len(trace[id]) = 3
        /\ trace[id][2].kind = "Output"
        /\ IsTerminal(trace[id][3])
        /\ other # id
        /\ rpc[other] = "read"

C4_FailedAncestorBlocks ==
    \A t \in TaskIds :
        (\E f \in TransDeps(graph, t) \cap TaskIds : status[f] = "Failed")
            => t \notin schedule_next(graph, status, running)

\* C5: Completed is sent only for a child whose exit code is 0, and a child
\* that exits by itself with code N # 0, with no operating-system error, ends
\* with Failed{"process exited with code N"}.
C5_ExitStatusClassified ==
    \A id \in TaskIds :
        \A i \in 1..Len(trace[id]) :
            LET e == trace[id][i]
            IN  /\ e.kind = "Completed" => ExitCodeOf(CommandOf(id)) = 0
                /\ (e.kind = "Failed" /\ id \notin killed /\ faults = 0)
                      => e.error = [msg |-> "process exited with code",
                                    code |-> ExitCodeOf(CommandOf(id))]

AllDone ==
    /\ \A id \in TaskIds : status[id] = "Done"
    /\ all_done(status, running)

\* the trace of a task that ran and succeeded: Started, its Output events,
\* Completed(0); a task without a command sends nothing
CleanTrace(id) ==
    IF HasCommand(id)
    THEN /\ Len(trace[id]) >= 2
         /\ trace[id][1].kind = "Started"
         /\ trace[id][Len(trace[id])].kind = "Completed"
         /\ trace[id][Len(trace[id])].exit_code = 0
         /\ \A i \in 2..(Len(trace[id]) - 1) : trace[id][i].kind = "Output"
    ELSE trace[id] = <<>>

\* C6: on an acyclic all-Pending graph whose commands exit with 0, under
\* fair scheduling the driver loop reaches, and stays in, a state where
\* every task is Done, all_done() holds and each id's trace is Started, its
\* Output events, Completed(0).
C6_AllTasksComplete ==
    <>[](AllDone /\ \A id \in TaskIds : CleanTrace(id))

\* all three tasks ran, one of them wrote a line, and all are Done
C6_Witness ==
    /\ AllDone
    /\ \A id \in TaskIds : HasCommand(id) /\ CleanTrace(id)
    /\ \E id \in TaskIds : Len(trace[id]) = 3

\* C7: a task whose command exits with a non-zero code does not end Done,
\* and no task that depends on it, directly or not, is started: it stays
\* Pending and sends no event.
C7_FailureBlocksDependents ==
    \A id \in TaskIds :
        (HasCommand(id) /\ ExitCodeOf(CommandOf(id)) # 0) =>
            /\ status[id] # "Done"
            /\ \A t \in TaskIds :
                  id \in TransDeps(graph, t) => status[t] = "Pending" /\ trace[t] = <<>>

\* C8: once all_done() is true it is true after every Scheduler transition.
C8_AllDoneStable ==
    [][all_done(status, running) => all_done(status', running')]_vars

\* C9: a Done or Failed task keeps its status, an InProgress task does not
\* return to Pending, and no task is put into Planned.
C9_StatusMonotonic ==
    [][\A id \in TaskIds :
          /\ status[id] \in {"Done", "Failed"} => status'[id] = status[id]
          /\ status[id] = "InProgress" => status'[id] # "Pending"
          /\ status'[id] = "Planned" => status[id] = "Planned"]_vars

\* C10: a failed spawn is put on the bus as a Failed event for that task and
\* the driver goes on with the other tasks.
C10_SpawnFailureSurfaced ==
    \A id \in spawnErr :
        /\ \E i \in 1..Len(trace[id]) : trace[id][i].kind = "Failed"
        /\ pc # "crashed"

\* number of terminal events sent for id
TerminalCount(id) ==
    Cardinality({i \in 1..Len(trace[id]) : IsTerminal(trace[id][i])})

\* the step of the driver that handles the 'k' key
StopTaskStep == keys' = keys + 1 /\ pc' = "process"

C12_PortsUnique ==
    /\ \A p, q \in DOMAIN allocations :
          allocations[p].port = allocations[q].port => p = q
    /\ DOMAIN port_map = {allocations[p].port : p \in DOMAIN allocations}
    /\ \A port \in DOMAIN port_map :
          /\ port_map[port] \in DOMAIN allocations
          /\ allocations[port_map[port]].port = port

C12_Witness ==
    /\ DOMAIN allocations = Projects
    /\ last.op = "get_or_allocate" /\ ~last.ok
    /\ last.before = "ExternallyUsed"
    /\ \E p \in Projects : allocations[p].active


\* C13: get_or_allocate(project, preferred) on a project whose entry's port
\* is bindable or marked active returns that port, whatever preferred is,
\* and leaves allocations and the index as they were
C13_GetOrAllocateIdempotent ==
    [][(/\ last'.op = "get_or_allocate"
        /\ last'.project \in DOMAIN allocations
        /\ \/ is_port_available(bindable, allocations[last'.project].port)
           \/ allocations[last'.project].active)
       => /\ last'.ok
          /\ last'.port = Some(allocations[last'.project].port)
          /\ allocations' = allocations
          /\ port_map' = port_map]_vars

\* the entry is active on a port that cannot be bound, and the call named
\* another port, bindable and free in the index
C13_Witness ==
    /\ last.op = "get_or_allocate" /\ last.ok
    /\ last.before = "Active"
    /\ last.port \cap bindable = {}
    /\ last.arg # None /\ last.arg # last.port
    /\ last.arg \subseteq bindable \ DOMAIN port_map
    /\ allocations[last.project].port \in last.port

\* get_status after the step
StatusAfter(project) ==
    get_status([allocations |-> allocations', port_map |-> port_map'],
               bindable', project)

StatusBefore(project) == get_status(Registry, bindable, project)

\* the transitions of the status of a project that do not depend on whether
\* its port can be bound
StatusSteps(project) ==
    /\ (/\ last'.op = "get_or_allocate" /\ last'.project = project
        /\ StatusBefore(project) = "Available"
        /\ project \in DOMAIN allocations')
       => StatusAfter(project) = "Reserved"
    /\ (/\ last'.op = "get_or_allocate" /\ last'.project = project
        /\ StatusBefore(project) = "Available"
        /\ last'.ok)
       => project \in DOMAIN allocations'
    /\ (/\ last'.op = "mark_active" /\ last'.project = project
        /\ StatusBefore(project) = "Reserved")
       => StatusAfter(project) = "Active"
    /\ (last'.op = "release" /\ last'.project = project)
       => StatusAfter(project) = "Available"
    /\ (/\ last'.op = "bind"
        /\ StatusBefore(project) = "Reserved"
        /\ last'.port = Some(allocations[project].port))
       => StatusAfter(project) = "ExternallyUsed"

\* C14 as stated: get_status follows Available -> Reserved on allocate,
\* Reserved -> Active on mark_active, Active -> Reserved on mark_inactive,
\* any -> Available on release, Reserved -> ExternallyUsed when another
\* process takes the port
C14_StatusMachine_Stated ==
    [][\A project \in Projects :
          /\ StatusSteps(project)
          /\ (/\ last'.op = "mark_inactive" /\ last'.project = project
              /\ StatusBefore(project) = "Active")
             => StatusAfter(project) = "Reserved"]_vars

\* C14 amended: as stated, but mark_inactive takes Active to Reserved only
\* when the port can be bound, and to ExternallyUsed when it cannot
C14_StatusMachine ==
    [][\A project \in Projects :
          /\ StatusSteps(project)
          /\ (/\ last'.op = "mark_inactive" /\ last'.project = project
              /\ StatusBefore(project) = "Active")
             => StatusAfter(project) =
                   IF is_port_available(bindable, allocations[project].port)
                   THEN "Reserved" ELSE "ExternallyUsed"]_vars

\* mark_inactive on an active project whose port is held by a process
C14_Witness ==
    /\ last.op = "mark_inactive" /\ last.before = "Active"
    /\ StatusBefore(last.project) = "ExternallyUsed"


\* a step that is a call on a handle: the child processes leave `last` alone
\* and change proc
PtyCallStep == last' # last \/ proc' = proc

\* C15: once kill was called on a handle, send_input on it fails, try_wait
\* answers at once with the exit value of a child that is gone (-1), and
\* another kill succeeds and leaves the handle as it was
C15_KilledHandle ==
    [][(/\ PtyCallStep
        /\ last'.op \in {"send_input", "try_wait", "kill"}
        /\ last'.after_kill)
       => /\ last'.op = "send_input"
             => ~last'.ok /\ written' = written
          /\ last'.op = "try_wait"
             => last'.ok /\ last'.value = Some(-1)
          /\ last'.op = "kill"
             => last'.ok /\ UNCHANGED <<reader, child, master, proc, killed>>]_vars


\* C16: end of file is sticky. A read_line_blocking that returns None leaves
\* the handle without its reader, nothing (kill included) gives a handle its
\* reader back, and every read_line_blocking on a handle without a reader,
\* by whichever thread, returns None
C16_EofSticky ==
    [][\A id \in PtyIds :
          /\ ~reader[id] => ~reader'[id]
          /\ (/\ PtyCallStep
              /\ last'.op = "read_line_blocking" /\ last'.task_id = id)
             => /\ (last'.ok /\ last'.value = None) => ~reader'[id]
                /\ ~reader[id] => (last'.ok /\ last'.value = None)]_vars

\* a read that found end of file while the child had only closed its side,
\* on a handle kill was called on (and failed to close)
C16_Witness ==
    /\ last.op = "read_line_blocking" /\ last.ok /\ last.value = None
    /\ last.after_kill
    /\ proc[last.task_id] = "closed"
    /\ master[last.task_id]
    /\ ~reader[last.task_id]


\* C17: handling an Output event overwrites the task's stored metrics only
\* when the parse succeeded with progress > 0, or metrics, or errors; when it
\* gave none of these (or failed) the stored metrics, the metric history and
\* the advisories stay as they were
C17_MetricsFrame ==
    [][lines' = lines + 1 /\ last'.op = "output"
       => /\ task_metrics' # task_metrics => last'.meaningful
          /\ ~last'.meaningful
             => UNCHANGED <<task_metrics, metric_history, advisories>>]_vars

\* a parse that succeeded with the phase alone, or with nothing, came for a
\* task that has metrics, history and advisories stored
C17_Witness ==
    /\ last.op = "output" /\ last.parsed /\ ~last.meaningful
    /\ task_metrics[last.task_id] # None
    /\ metric_history[last.task_id] # <<>>
    /\ advisories[last.task_id] # None


\* the snapshots the history of the followed task gained since the first of
\* the calls followed
RunGrowth == Len(metric_history[last.run.task_id]) - last.run.base

\* C18 as stated: after any number of calls to record with unchanged
\* progress, each less than a second after the one before, the history has
\* gained at most one snapshot
C18_Dedup_Stated == last.run.n > 0 => RunGrowth <= 1

\* C18 amended: after any number of calls to record with unchanged progress,
\* all of them less than a second after the first, the history has gained at
\* most one snapshot
C18_Dedup ==
    (last.run.n > 0 /\ last.run.at - last.run.first < TicksPerSecond)
        => RunGrowth <= 1

\* three calls or more, the last one later than the first and within the
\* second, and one snapshot gained
C18_Witness ==
    /\ last.run.n >= 3
    /\ last.run.at > last.run.first
    /\ last.run.at - last.run.first < TicksPerSecond
    /\ RunGrowth = 1


\* the template read once from left to right: {k} with k a key of params
\* gives the value of k as it is, every other character stays
RECURSIVE RenderLiteral(_, _)
RenderLiteral(template, params) ==
    IF template = <<>> THEN <<>>
    ELSE IF \E k \in DOMAIN params : StartsWith(template, Placeholder(k))
    THEN LET k == CHOOSE x \in DOMAIN params : StartsWith(template, Placeholder(x))
         IN  params[k] \o RenderLiteral(SubSeq(template, 4, Len(template)), params)
    ELSE <<Head(template)>> \o RenderLiteral(Tail(template), params)

\* C19: render(T, P) is T with every {k}, k a key of P, replaced by P[k] as
\* it is (the value put in is not read again for placeholders) and every
\* other {k} left as it was
C19_RenderLiteral ==
    last.op = "render" => last.out = RenderLiteral(last.template, last.params)


\* a step that is a call of execute_semantic_command
SemStep == last' # last /\ last'.op = "execute_semantic_command"

\* the PTYs after text and a newline went to the PTY of id alone
SemWritten(id, text) == [written EXCEPT ![id] = @ \o text \o "\n"]

DepsExist(g) == \A id \in DOMAIN g : DepsOf(g, id) \subseteq DOMAIN g

Acyclic(g) == \A id \in DOMAIN g : id \notin TransDeps(g, id)

\* C21: a graph with a dependency on an id that is not in it, or with a
\* dependency cycle, is reported as an error at load or by the first query
\* of the scheduler: no schedule_next on such a graph returns normally
C21_InvalidGraphReported ==
    (last.op = "schedule_next" /\ ~(DepsExist(graph) /\ Acyclic(graph)))
        => ~last.ok


\* C22: all_done() returns true exactly when the running set is empty and
\* every task of the graph has status Done or Failed
C22_AllDoneIff ==
    last.op = "all_done"
        => (last.value <=> /\ running = {}
                           /\ \A id \in TaskIds : status[id] \in {"Done", "Failed"})

\* all_done() answered true on a graph with a failed task
C22_Witness ==
    /\ last.op = "all_done" /\ last.value
    /\ \E id \in TaskIds : status[id] = "Failed"
    /\ \E id \in TaskIds : status[id] = "Done"


\* what a mark_* call with an id outside the graph does
MarkRejected ==
    ~last'.ok /\ status' = status /\ running' = running

\* what a mark_* call with an id of the graph does
MarkApplied(id, new_status, run) ==
    /\ last'.ok
    /\ status' = [status EXCEPT ![id] = new_status]
    /\ running' = run

MarkStep(id) ==
    /\ SchedMarkStarted(id) =>
          IF id \in TaskIds
          THEN MarkApplied(id, "InProgress", running \cup {id})
          ELSE MarkRejected
    /\ SchedMarkDone(id) =>
          IF id \in TaskIds
          THEN MarkApplied(id, "Done", running \ {id})
          ELSE MarkRejected
    /\ SchedMarkFailed(id) =>
          IF id \in TaskIds
          THEN MarkApplied(id, "Failed", running \ {id})
          ELSE MarkRejected

\* C23: mark_started, mark_done and mark_failed with an id that is not in
\* the graph return an error and change no status and not the running set;
\* with an id of the graph mark_started sets InProgress and inserts the id
\* into running, mark_done and mark_failed set Done or Failed and remove the
\* id from running
C23_MarkCalls ==
    [][\A id \in TaskIds \cup {UnknownId} : MarkStep(id)]_vars

\* a mark_* call with an unknown id was refused while a task was running
C23_Witness ==
    /\ last.op \in {"mark_started", "mark_done", "mark_failed"}
    /\ ~last.ok
    /\ running # {}


\* the entries of the other projects stay as they are
OthersKept(project) ==
    /\ DOMAIN allocations' = DOMAIN allocations
    /\ \A other \in DOMAIN allocations \ {project} :
          allocations'[other] = allocations[other]

\* mark_active on an entry: the flag and the time are set, the port stays
MarkActiveStep(project, pid, saveErr) ==
    (PortMarkActive(project, pid, saveErr) /\ project \in DOMAIN allocations)
        => /\ OthersKept(project)
           /\ allocations'[project].active
           /\ allocations'[project].last_active = Some(now)
           /\ allocations'[project].port = allocations[project].port

\* mark_inactive on an entry, as stated: the flag and the time are cleared
MarkInactiveStep_Stated(project, saveErr) ==
    (PortMarkInactive(project, saveErr) /\ project \in DOMAIN allocations)
        => /\ OthersKept(project)
           /\ ~allocations'[project].active
           /\ allocations'[project].last_active = None
           /\ allocations'[project].port = allocations[project].port

\* mark_inactive on an entry: the flag and the pid are cleared, the time of
\* the last activity and the port stay
MarkInactiveStep(project, saveErr) ==
    (PortMarkInactive(project, saveErr) /\ project \in DOMAIN allocations)
        => /\ OthersKept(project)
           /\ ~allocations'[project].active
           /\ allocations'[project].pid = None
           /\ allocations'[project].last_active = allocations[project].last_active
           /\ allocations'[project].port = allocations[project].port

\* C24 as stated: mark_active sets the active flag and the last-active
\* time of the entry, mark_inactive clears the active flag and the
\* last-active time; neither changes the port of the entry or the entry of
\* another project
C24_MarkFlags_Stated ==
    [][\A project \in Projects, saveErr \in BOOLEAN :
          /\ \A pid \in {None} \cup {Some(x) : x \in Pids} :
                MarkActiveStep(project, pid, saveErr)
          /\ MarkInactiveStep_Stated(project, saveErr)]_vars

\* C24 amended: mark_active sets the active flag and the last-active time of
\* the entry, mark_inactive clears the active flag and the pid and keeps the
\* last-active time; neither changes the port of the entry or the entry of
\* another project
C24_MarkFlags ==
    [][\A project \in Projects, saveErr \in BOOLEAN :
          /\ \A pid \in {None} \cup {Some(x) : x \in Pids} :
                MarkActiveStep(project, pid, saveErr)
          /\ MarkInactiveStep(project, saveErr)]_vars

\* mark_inactive on a project that was marked active at a later time than
\* the other project
C24_Witness ==
    /\ last.op = "mark_inactive"
    /\ DOMAIN allocations = Projects
    /\ ~allocations[last.project].active
    /\ \E other \in Projects \ {last.project} :
          /\ allocations[other].last_active # None
          /\ allocations[last.project].last_active # None
          /\ allocations[other].last_active # allocations[last.project].last_active


\* the entries cleanup_stale is to remove
Stale ==
    {p \in DOMAIN allocations :
        ~allocations[p].active /\ allocations[p].port \notin bindable}

\* C25: cleanup_stale removes exactly the entries that are not active and
\* whose port is not bindable, keeps every other entry as it was, returns
\* the number of entries it removed, and leaves the port -> project index
\* equal to the inversion of the allocations that remain
C25_CleanupStale ==
    [][last'.op = "cleanup_stale"
          => /\ DOMAIN allocations' = DOMAIN allocations \ Stale
             /\ \A p \in DOMAIN allocations' : allocations'[p] = allocations[p]
             /\ last'.ok => last'.count = Cardinality(Stale)
             /\ DOMAIN port_map' = {allocations'[p].port : p \in DOMAIN allocations'}
             /\ \A p \in DOMAIN allocations' :
                   port_map'[allocations'[p].port] = p]_vars

\* cleanup_stale removed one entry and kept an active one whose port is not
\* bindable either
C25_Witness ==
    /\ last.op = "cleanup_stale" /\ last.ok /\ last.count = 1
    /\ \E p \in DOMAIN allocations :
          allocations[p].active /\ allocations[p].port \notin bindable


\* the project has no entry that get_or_allocate would hand out again
NoReusableEntry(project) ==
    project \in DOMAIN allocations
        => /\ allocations[project].port \notin bindable
           /\ ~allocations[project].active

\* the preferred port is absent, not bindable, or held in the index
PreferredUnusable(preferred) ==
    \A port \in preferred : port \notin bindable \/ port \in DOMAIN port_map

\* no port of the range is both absent from the index and bindable
RangeExhausted ==
    \A port \in PORT_RANGE_START..PORT_RANGE_END :
        port \in DOMAIN port_map \/ port \notin bindable

\* C26: when the project has no reusable entry, the preferred port is
\* unusable and no port of the range is both absent from the index and
\* bindable, get_or_allocate returns an error and leaves allocations and the
\* index as they were, and App::new goes on without a port
C26_RangeExhausted ==
    [][(/\ last'.op \in {"get_or_allocate", "App::new"}
        /\ NoReusableEntry(last'.project)
        /\ PreferredUnusable(last'.arg)
        /\ RangeExhausted)
       => /\ allocations' = allocations
          /\ port_map' = port_map
          /\ last'.port = None
          /\ last'.ok <=> last'.op = "App::new"]_vars

\* App::new went on without a port: nothing is allocated and no port of the
\* range is bindable
C26_Witness ==
    /\ last.op = "App::new" /\ last.ok /\ last.port = None
    /\ allocations = << >>
    /\ RangeExhausted
    /\ PORT_RANGE_START - 1 \in bindable


\* C27: after each registry operation that changes allocations
\* (get_or_allocate, mark_active, mark_inactive, release, cleanup_stale,
\* refresh_status) returns, the content of the ports file equals the
\* allocations in memory
C27_PersistedOnMutation ==
    [][(/\ last'.op \in {"get_or_allocate", "mark_active", "mark_inactive",
                         "release", "cleanup_stale", "refresh_status"}
        /\ allocations' # allocations)
       => ports_json' = Some(allocations')]_vars


\* the rate over the last min(rate_window, len) snapshots of h is positive
RatePositive(h) ==
    LET window == IF Len(h) < rate_window THEN Len(h) ELSE rate_window
        start == h[Len(h) - window + 1]
    IN  /\ h[Len(h)].timestamp > start.timestamp
        /\ h[Len(h)].progress > start.progress

\* C28: whenever estimate_remaining() returns a duration, the latest
\* recorded progress lies strictly between 0 and 1 and the progress rate
\* over the last min(10, len) snapshots is strictly positive
C28_EstimateOnlyWhenProgressing ==
    (last.op = "estimate_remaining" /\ last.value # None)
        => LET h == metric_history[HistoryId]
           IN  /\ h # <<>>
               /\ h[Len(h)].progress > 0 /\ h[Len(h)].progress < 1000
               /\ RatePositive(h)

\* an estimate was given for a history longer than the window
C28_Witness ==
    /\ last.op = "estimate_remaining" /\ last.value # None
    /\ Len(metric_history[HistoryId]) > rate_window

\* the timestamps of h never go down
NonDecreasing(h) ==
    \A i \in 1..(Len(h) - 1) : h[i].timestamp <= h[i + 1].timestamp

\* C29: after any sequence of record calls the history holds at most 500
\* snapshots, in the order they were appended and with timestamps that
\* never go down, and when the cap is exceeded the oldest snapshot goes
C29_HistoryCapped ==
    [][LET h == metric_history[HistoryId]
           after == metric_history'[HistoryId]
           newest == after[Len(after)]
       IN  /\ Len(after) <= max_snapshots
           /\ NonDecreasing(after)
           /\ \/ after = h
              \/ Len(h) < max_snapshots /\ after = Append(h, newest)
              \/ Len(h) = max_snapshots /\ after = Append(Tail(h), newest)]_vars

\* the history is full, its oldest snapshots were dropped and its newest is
\* later than its oldest
C29_Witness ==
    LET h == metric_history[HistoryId]
    IN  /\ Len(h) = max_snapshots
        /\ h[1] # NearlyFull[1]
        /\ h[Len(h)].timestamp > h[1].timestamp


\* the numbers of the latest step line of the parsed window
LatestStep ==
    CHOOSE n \in (CHOOSE l \in LatestStepLine(last.output) : TRUE).step : TRUE

\* C30: for every output window the progress the build parser returns is
\* within [0, 1]: 1 if a Finished line is seen, otherwise cur/total of the
\* latest [cur/total] step line, otherwise 0
C30_BuildProgress ==
    last.op = "parse"
        => /\ last.value.progress >= 0 /\ last.value.progress <= 1000
           /\ IF LatestFinishedLine(last.output) # None
              THEN last.value.progress = 1000
              ELSE IF LatestStepLine(last.output) # None
              THEN LatestStep[2] > 0
                      => last.value.progress = (LatestStep[1] * 1000) \div LatestStep[2]
              ELSE last.value.progress = 0


\* the phase of the highest priority among the markers of the parsed window
HighestPhase ==
    IF LatestFinishedLine(last.output) # None THEN Some("Finished")
    ELSE IF contains(last.output, "test result:") THEN Some("Testing")
    ELSE IF contains(last.output, "Linking") THEN Some("Linking")
    ELSE IF contains(last.output, "Compiling") THEN Some("Compiling")
    ELSE None

\* C31: the build parser reports the phase in the priority order Finished >
\* Testing > Linking > Compiling: the phase of the highest priority among
\* the markers present in the window, and none when no marker is present
C31_PhasePriority ==
    last.op = "parse" => last.value.phase = HighestPhase


----------------------------------------------------------------------------
(* the running set of the scheduler *)

InProgressTasks == {id \in TaskIds : status[id] = "InProgress"}

\* C36: from a graph with no InProgress task, after any sequence of
\* Scheduler operations (schedule_next, mark_started, mark_done, mark_failed,
\* all_done, the failing calls on an unknown id included), running is
\* exactly the set of the tasks whose status is InProgress
C36_RunningIsInProgress ==
    (InProgressTasks = {}) => [](running = InProgressTasks)

\* a task was started and another one, started before, has ended: running
\* holds the one and not the other
C36_Witness ==
    /\ last.op \in {"mark_done", "mark_failed"} /\ last.ok
    /\ running # {}
    /\ running = InProgressTasks
    /\ \E id \in TaskIds : status[id] \in {"Done", "Failed"}

----------------------------------------------------------------------------
(* empty lines *)

OutputsOf(events) ==
    {events[i].line : i \in {j \in 1..Len(events) : events[j].kind = "Output"}}

\* C34: no Output event with an empty line is ever put on the bus, so the
\* driver never stores or parses one: a blank line of the child and the
\* Some("") that stands for WouldBlock both reach the worker as an empty
\* line, for which it sends nothing and goes on reading
C34_NoEmptyOutput ==
    /\ "" \notin OutputsOf(bus)
    /\ \A id \in TaskIds : "" \notin OutputsOf(trace[id])

\* a worker has read a blank line, has sent no Output for it and is still
\* in its loop
C34_Witness ==
    /\ lines > 0
    /\ \A id \in TaskIds : OutputsOf(trace[id]) = {}
    /\ \E id \in TaskIds : rpc[id] = "read" /\ reader[id]

----------------------------------------------------------------------------
(* tasks without a command *)

\* a call of App::start_ready_tasks
StartReadyStep == pc \in {"start0", "start"} /\ pc' # pc

\* C35: a ready task without a command is completed by the driver in the
\* call of start_ready_tasks whose schedule_next returns it: its status goes
\* from Pending to Done in that call; it is never in running, never has a
\* PTY and never has an event sent for it
C35_AutoComplete ==
    [][\A id \in TaskIds : ~HasCommand(id) =>
          /\ id \notin running' /\ id \notin handles'
          /\ proc'[id] = "none" /\ trace'[id] = <<>>
          /\ status'[id] # status[id] => status[id] = "Pending" /\ status'[id] = "Done"
          /\ StartReadyStep /\ id \in ready' => status'[id] = "Done"]_vars

----------------------------------------------------------------------------
(* dependencies under the driver loop *)

HasEvent(id, kind) == \E i \in 1..Len(trace[id]) : trace[id][i].kind = kind

\* C37, as stated: under the driver loop a task that is InProgress, Done or
\* Failed has every dependency Done, and a task for which Started was sent
\* has a Completed event for each of its dependencies
C37_DepsFirst_Stated ==
    \A id \in TaskIds : \A dep \in DepsOf(graph, id) :
        /\ status[id] \in {"InProgress", "Done", "Failed"} => status[dep] = "Done"
        /\ HasEvent(id, "Started") => HasEvent(dep, "Completed")

\* C37, amended: under the driver loop a task that is InProgress, Done or
\* Failed has every dependency Done, and a task for which Started was sent
\* has a Completed event for each of its dependencies that has a command (a
\* dependency without a command is Done without any event)
C37_DepsFirst ==
    \A id \in TaskIds : \A dep \in DepsOf(graph, id) :
        /\ status[id] \in {"InProgress", "Done", "Failed"} => status[dep] = "Done"
        /\ HasEvent(id, "Started") =>
              IF HasCommand(dep) THEN HasEvent(dep, "Completed")
              ELSE status[dep] = "Done" /\ trace[dep] = <<>>

\* a task is running that was started after the task it depends on, which
\* has a command, had sent Completed
C37_Witness ==
    \E id \in TaskIds : \E dep \in DepsOf(graph, id) :
        /\ HasEvent(id, "Started") /\ status[id] = "InProgress"
        /\ HasCommand(dep) /\ HasEvent(dep, "Completed")

----------------------------------------------------------------------------
(* a kill that comes before the worker's try_wait *)

\* kill took the child of id while no Completed had been sent for id
KilledFirst(id) == id \in killed' /\ ~HasEvent(id, "Completed")

Dependents(id) == {d \in TaskIds : id \in DepsOf(graph, d)}

----------------------------------------------------------------------------
(* the PortManager's cache *)

\* C40: after any sequence of allocate, activate, deactivate and cleanup on
\* a PortManager, whenever get_port(project) returns a port, the registry's
\* allocations hold an entry for that project with exactly that port
C40_CacheAgrees ==
    last.op = "get_port" =>
        \A port \in last.port :
            /\ last.project \in DOMAIN allocations
            /\ allocations[last.project].port = port

----------------------------------------------------------------------------
(* the Mutexes of the Executor and of the PTY handles *)

\* the Mutexes the driver's call has still to take
WantedLocks ==
    CASE call.op = "idle" -> {}
      [] call.op \in {"stop_task", "stop_all"} /\ call.step = "child" ->
            {FieldLock("child", h) : h \in call.todo}
      [] call.op \in {"stop_task", "stop_all"} /\ call.step = "reader" ->
            {FieldLock("reader", call.cur), FieldLock("master", call.cur)}
      [] call.op = "send_input" ->
            {HandlesLock} \cup {FieldLock("master", handle_table[id]) :
                                  id \in DOMAIN handle_table \cap {call.task_id}}
      [] OTHER -> {HandlesLock}

\* the workers that are blocked in read_line, inside read_line_blocking
BlockedReaders == {WorkerThread(h) : h \in {x \in DOMAIN ptys : ptys[x].worker = "read"}}

\* C32: a kill (from stop_task or stop_all) or a send_input of the driver
\* never waits for a worker that is blocked in read_line_blocking on the
\* same handle: no Mutex the call has to take is held by such a worker
C32_KillDoesNotWaitForReader ==
    call.op \in {"stop_task", "stop_all", "send_input"} =>
        \A l \in WantedLocks \cap DOMAIN owner : owner[l] \notin BlockedReaders

\* the workers of id that have not exited
LiveWorkers(id) ==
    {h \in DOMAIN ptys : ptys[h].task_id = id /\ ptys[h].worker # "done"}

\* C33: after any sequence of start_task and stop_task calls, an id has at
\* most one reader worker that has not exited, which is then the only
\* producer of the id's Output, Completed and Failed events, and the handle
\* table has an entry for the id, holding that worker's handle, exactly
\* while there is such a worker
C33_OneWorkerPerId ==
    \A id \in ExecIds :
        /\ Cardinality(LiveWorkers(id)) <= 1
        /\ id \in DOMAIN handle_table <=> LiveWorkers(id) # {}
        /\ id \in DOMAIN handle_table => handle_table[id] \in LiveWorkers(id)

\* C38: no interleaving of the driver's Executor calls with the reader
\* workers deadlocks on the table's lock and the handles' locks: when every
\* child process exits or is killed in the end, every call of the driver
\* returns
C38_CallsReturn == (call.op # "idle") ~> (call.op = "idle")

\* stop_all holds the table's lock and waits for the reader's lock of a
\* handle whose worker is blocked in read_line, while the worker of another
\* handle waits for the table's lock to remove its entry
C38_Witness ==
    /\ call.op = "stop_all" /\ call.step = "reader"
    /\ owner[HandlesLock] = DriverThread
    /\ FieldLock("reader", call.cur) \in DOMAIN owner
    /\ \E h \in DOMAIN ptys : h # call.cur /\ ptys[h].worker = "cleanup"
====
